---- MODULE Spec2Model ----
(***************************************************************************)
(* A model of the gossip node (src/gossip): the envelope codec             *)
(* (message.py), the proof-of-work admission check (pow.py) and the        *)
(* protocol engine of one node (node.py).                                  *)
(*                                                                         *)
(* Representation of the program's values:                                 *)
(*   - a str used as an identity (node_id, sender_id) is the sequence of   *)
(*     its characters, each a digit; "" is <<>>;                           *)
(*   - an address string and a message / ping id are numbered; 0 is the    *)
(*     empty string "" (falsy in Python, and below every other string);    *)
(*   - a dict is a TLA+ record over the keys it holds, {} is EmptyDict;    *)
(*   - None where an int is expected is IntNone.                           *)
(***************************************************************************)
EXTENDS Integers, Sequences, FiniteSets, TLC

\* ------------------------------------------------------------------ values

EmptyDict == [key \in {} |-> 0]

\* Python's None in a slot that otherwise holds an int
IntNone == 0 - 1

\* the value None where a Message or a dict is expected
None == [none |-> TRUE]

\* dict.get(key, default)
Get(d, key, default) == IF key \in DOMAIN d THEN d[key] ELSE default

\* truthiness of an int-or-None / str value: None, 0 and "" are falsy
Truthy(x) == x # IntNone /\ x # 0

Min2(a, b) == IF a <= b THEN a ELSE b

\* ------------------------------------------------------------------ message.py

MSG_TYPES == {"HELLO", "GET_PEERS", "PEERS_LIST", "GOSSIP", "PING", "PONG",
              "IHAVE", "IWANT"}

\* a payload: the JSON value of the slot, a mapping (isdict) or anything else
Payload(items) == [isdict |-> TRUE, items |-> items]

\* a payload that is valid JSON but not a mapping (a number, a list, ...)
NotADict == [isdict |-> FALSE, items |-> EmptyDict]

\* dataclass Message; ttl defaults to 8, version to 1
DefaultTtl == 8

Message(msg_type, sender_id, sender_addr, payload, ttl, msg_id, timestamp_ms) ==
    [msg_type |-> msg_type, sender_id |-> sender_id, sender_addr |-> sender_addr,
     payload |-> payload, ttl |-> ttl, version |-> 1, msg_id |-> msg_id,
     timestamp_ms |-> timestamp_ms]

\* Message.to_dict: the mutant drops the ttl slot from the record
to_dict_NoTtl(m) ==
    [version |-> m.version, msg_id |-> m.msg_id, msg_type |-> m.msg_type,
     sender_id |-> m.sender_id, sender_addr |-> m.sender_addr,
     timestamp_ms |-> m.timestamp_ms, payload |-> m.payload]

to_dict(m) ==
    [version |-> m.version, msg_id |-> m.msg_id, msg_type |-> m.msg_type,
     sender_id |-> m.sender_id, sender_addr |-> m.sender_addr,
     timestamp_ms |-> m.timestamp_ms, ttl |-> m.ttl, payload |-> m.payload]

\* A datagram's bytes, by what decoding makes of them: "undecodable" (not
\* UTF-8), "notjson" (text json.loads rejects), "array" (JSON, but no
\* top-level object) or "object" with the decoded document.
Frame(form, doc) == [form |-> form, doc |-> doc]

\* Message.to_bytes: json.dumps(self.to_dict()).encode("utf-8")
to_bytes(m) == Frame("object", to_dict(m))

\* Message.from_bytes; uuid is the value uuid.uuid4().hex would return.
\* The variants: one requires every identifying slot, one defaults ttl to 8.
from_bytes_Strict(data, uuid) ==
    IF data.form # "object" THEN None
    ELSE LET d == data.doc
             msg_type == Get(d, "msg_type", "")
         IN  IF msg_type \notin MSG_TYPES
                \/ ~ ({"msg_id", "sender_id", "sender_addr"} \subseteq DOMAIN d)
             THEN None
             ELSE [version |-> Get(d, "version", 1),
                   msg_id |-> Get(d, "msg_id", uuid),
                   msg_type |-> msg_type,
                   sender_id |-> Get(d, "sender_id", <<>>),
                   sender_addr |-> Get(d, "sender_addr", 0),
                   timestamp_ms |-> Get(d, "timestamp_ms", 0),
                   ttl |-> Get(d, "ttl", 0),
                   payload |-> Get(d, "payload", Payload(EmptyDict))]

from_bytes_TtlDefault8(data, uuid) ==
    IF data.form # "object" THEN None
    ELSE LET d == data.doc
             msg_type == Get(d, "msg_type", "")
         IN  IF msg_type \notin MSG_TYPES THEN None
             ELSE [version |-> Get(d, "version", 1),
                   msg_id |-> Get(d, "msg_id", uuid),
                   msg_type |-> msg_type,
                   sender_id |-> Get(d, "sender_id", <<>>),
                   sender_addr |-> Get(d, "sender_addr", 0),
                   timestamp_ms |-> Get(d, "timestamp_ms", 0),
                   ttl |-> Get(d, "ttl", DefaultTtl),
                   payload |-> Get(d, "payload", Payload(EmptyDict))]

from_bytes(data, uuid) ==
    IF data.form # "object" THEN None
    ELSE LET d == data.doc
             msg_type == Get(d, "msg_type", "")
         IN  IF msg_type \notin MSG_TYPES THEN None
             ELSE [version |-> Get(d, "version", 1),
                   msg_id |-> Get(d, "msg_id", uuid),
                   msg_type |-> msg_type,
                   sender_id |-> Get(d, "sender_id", <<>>),
                   sender_addr |-> Get(d, "sender_addr", 0),
                   timestamp_ms |-> Get(d, "timestamp_ms", 0),
                   ttl |-> Get(d, "ttl", 0),
                   payload |-> Get(d, "payload", Payload(EmptyDict))]

\* -- factory helpers; uuid and now_ms are the values the default factories
\*    (uuid.uuid4().hex, int(time.time() * 1000)) would return

hello(sender_id, sender_addr, pow_data, uuid, now_ms) ==
    Message("HELLO", sender_id, sender_addr,
            Payload(IF pow_data = None
                    THEN [capabilities |-> <<"udp", "json">>]
                    ELSE [capabilities |-> <<"udp", "json">>, pow |-> pow_data]),
            DefaultTtl, uuid, now_ms)

get_peers(sender_id, sender_addr, max_peers, uuid, now_ms) ==
    Message("GET_PEERS", sender_id, sender_addr,
            Payload([max_peers |-> max_peers]), DefaultTtl, uuid, now_ms)

peers_list(sender_id, sender_addr, peers, uuid, now_ms) ==
    Message("PEERS_LIST", sender_id, sender_addr,
            Payload([peers |-> peers]), DefaultTtl, uuid, now_ms)

\* msg_id or uuid4().hex; origin_timestamp_ms or int(time.time() * 1000)
gossip(sender_id, sender_addr, data, origin_id, ttl, topic, origin_timestamp_ms, msg_id, uuid, now_ms) ==
    Message("GOSSIP", sender_id, sender_addr,
            Payload([topic |-> topic, data |-> data, origin_id |-> origin_id,
                     origin_timestamp_ms |->
                         IF Truthy(origin_timestamp_ms)
                         THEN origin_timestamp_ms ELSE now_ms]),
            ttl, IF Truthy(msg_id) THEN msg_id ELSE uuid, now_ms)

\* ping_id is the value of the payload's own uuid4().hex
ping(sender_id, sender_addr, seq, ping_id, uuid, now_ms) ==
    Message("PING", sender_id, sender_addr,
            Payload([ping_id |-> ping_id, seq |-> seq]), DefaultTtl, uuid, now_ms)

pong(sender_id, sender_addr, ping_id, seq, uuid, now_ms) ==
    Message("PONG", sender_id, sender_addr,
            Payload([ping_id |-> ping_id, seq |-> seq]), DefaultTtl, uuid, now_ms)

\* ids[:max_ids]
ihave(sender_id, sender_addr, ids, max_ids, uuid, now_ms) ==
    Message("IHAVE", sender_id, sender_addr,
            Payload([ids |-> SubSeq(ids, 1, Min2(Len(ids), max_ids)),
                     max_ids |-> max_ids]),
            DefaultTtl, uuid, now_ms)

iwant(sender_id, sender_addr, ids, uuid, now_ms) ==
    Message("IWANT", sender_id, sender_addr,
            Payload([ids |-> ids]), DefaultTtl, uuid, now_ms)

\* ------------------------------------------------------------------ pow.py

\* largest difficulty the start-up search is run with
MaxK == 2

\* the nonce at which the model gives up the search loop of compute_pow
MaxNonce == 60

\* str(n) for n >= 0, as its digits
RECURSIVE Decimal(_)
Decimal(n) == IF n < 10 THEN <<n>> ELSE Append(Decimal(n \div 10), n % 10)

\* f"{node_id}{nonce}"
PowData(node_id, nonce) == node_id \o Decimal(nonce)

\* The digest's leading digits come from a mixing fold over the input
\* (MixMod, MixMul, MixAdd); they are followed by the input itself, which
\* stands for the rest of the digest and makes the digest collision-free, as
\* SHA-256 is taken to be.
MixMod == 64
MixMul == 57
MixAdd == 7

RECURSIVE Mix(_, _)
Mix(data, v) ==
    IF data = <<>> THEN v
    ELSE Mix(Tail(data), (v * MixMul + Head(data) + MixAdd) % MixMod)

\* hashlib.sha256(data).hexdigest()
sha256_hexdigest(data) ==
    LET v == Mix(data, 0)
    IN  <<v \div 16, (v \div 4) % 4, v % 4>> \o data

\* "0" * k
Zeros(k) == [i \in 1..k |-> 0]

\* str.startswith
StartsWith(s, prefix) ==
    Len(prefix) <= Len(s) /\ SubSeq(s, 1, Len(prefix)) = prefix

\* the dict compute_pow returns (elapsed_ms, a measured time no code reads
\* back, is left at 0)
PowToken(k, nonce, digest) ==
    [hash_alg |-> "sha256", difficulty_k |-> k, nonce |-> nonce,
     digest_hex |-> digest, elapsed_ms |-> 0]

\* the while loop of compute_pow from `nonce` on; None when the loop is still
\* running at MaxNonce
RECURSIVE PowSearch(_, _, _)
PowSearch(node_id, k, nonce) ==
    LET digest == sha256_hexdigest(PowData(node_id, nonce))
    IN  IF StartsWith(digest, Zeros(k)) THEN PowToken(k, nonce, digest)
        ELSE IF nonce >= MaxNonce THEN None
        ELSE PowSearch(node_id, k, nonce + 1)

\* the mutant starts the search at 1 and so can miss nonce 0
compute_pow_From1(node_id, k) == PowSearch(node_id, k, 1)

compute_pow(node_id, k) == PowSearch(node_id, k, 0)

\* the mutant does not compare the declared difficulty with the required one
validate_pow_NoDeclaredK(node_id, pow_data, required_k) ==
    IF pow_data = None \/ DOMAIN pow_data = {} THEN FALSE
    ELSE LET nonce == Get(pow_data, "nonce", IntNone)
             claimed_digest == Get(pow_data, "digest_hex", <<>>)
         IN  IF nonce = IntNone THEN FALSE
             ELSE LET actual_digest == sha256_hexdigest(PowData(node_id, nonce))
                  IN  IF actual_digest # claimed_digest THEN FALSE
                      ELSE StartsWith(actual_digest, Zeros(required_k))

\* the mutant trusts the claimed digest instead of recomputing it
validate_pow_NoRecompute(node_id, pow_data, required_k) ==
    IF pow_data = None \/ DOMAIN pow_data = {} THEN FALSE
    ELSE LET nonce == Get(pow_data, "nonce", IntNone)
             claimed_digest == Get(pow_data, "digest_hex", <<>>)
             claimed_k == Get(pow_data, "difficulty_k", 0)
         IN  IF nonce = IntNone \/ claimed_k < required_k THEN FALSE
             ELSE StartsWith(claimed_digest, Zeros(required_k))

validate_pow(node_id, pow_data, required_k) ==
    IF pow_data = None \/ DOMAIN pow_data = {} THEN FALSE
    ELSE LET nonce == Get(pow_data, "nonce", IntNone)
             claimed_digest == Get(pow_data, "digest_hex", <<>>)
             claimed_k == Get(pow_data, "difficulty_k", 0)
         IN  IF nonce = IntNone \/ claimed_k < required_k THEN FALSE
             ELSE LET actual_digest == sha256_hexdigest(PowData(node_id, nonce))
                  IN  IF actual_digest # claimed_digest THEN FALSE
                      ELSE StartsWith(actual_digest, Zeros(required_k))


\* ------------------------------------------------------------------ node.py

\* Max entries kept in seen set / message store (10_000 in the source; the
\* model keeps the constant and scales its value so that overflow is reached)
SEEN_SET_MAX == 2

\* PeerInfo(node_id, addr), last_seen = time.time()
PeerInfo(node_id, addr, now) ==
    [node_id |-> node_id, addr |-> addr, last_seen |-> now]

\* GossipNode.__init__: the state of a freshly constructed node.  peers and
\* seen are kept in the insertion order of the dict / OrderedDict.
GossipNode(cfg, node_id, addr) ==
    [cfg |-> cfg, node_id |-> node_id, addr |-> addr, rng |-> cfg.seed,
     peers |-> <<>>, seen |-> <<>>, message_store |-> EmptyDict,
     pending_pings |-> EmptyDict, ping_seq |-> 0, pow_data |-> None,
     stats_sent |-> 0, running |-> FALSE, transport |-> "none"]

\* -- sequence helpers
SeqSet(q) == {q[i] : i \in DOMAIN q}
RemoveAt(q, i) == SubSeq(q, 1, i - 1) \o SubSeq(q, i + 1, Len(q))
RemoveKey(d, k) == [key \in DOMAIN d \ {k} |-> d[key]]
SetKey(d, k, v) == [key \in DOMAIN d \cup {k} |-> IF key = k THEN v ELSE d[key]]

RECURSIVE SelectPeers(_, _)
SelectPeers(peers, keep) ==
    IF peers = <<>> THEN <<>>
    ELSE (IF Head(peers).addr \in keep THEN <<Head(peers)>> ELSE <<>>)
         \o SelectPeers(Tail(peers), keep)

\* list(self.peers.keys())
PeerAddrs(s) == [i \in DOMAIN s.peers |-> s.peers[i].addr]
PeerSet(s) == {s.peers[i].addr : i \in DOMAIN s.peers}
PeerIndex(s, addr) == CHOOSE i \in DOMAIN s.peers : s.peers[i].addr = addr

\* lst[:n] and lst[-n:], with Python's reading of a negative / zero n
SliceTo(lst, n) ==
    IF n >= 0 THEN SubSeq(lst, 1, Min2(n, Len(lst)))
    ELSE SubSeq(lst, 1, Len(lst) + n)
SliceLast(lst, n) ==
    IF n > 0 THEN SubSeq(lst, Len(lst) - Min2(n, Len(lst)) + 1, Len(lst))
    ELSE IF n = 0 THEN lst
    ELSE SubSeq(lst, Min2(0 - n, Len(lst)) + 1, Len(lst))

\* -- the seeded PRNG: random.Random(seed) is a deterministic stream; the
\*    model's stream is a linear congruential one over RngMod states
RngMod == 7
RngMul == 3
RngInc == 1
RngNext(rng) == (rng * RngMul + RngInc) % RngMod

\* self.rng.sample(population, k): k distinct elements, and the stream after
RECURSIVE Sample(_, _, _)
Sample(rng, population, k) ==
    IF k = 0 THEN [targets |-> <<>>, rng |-> rng]
    ELSE LET i == (rng % Len(population)) + 1
             rest == Sample(RngNext(rng), RemoveAt(population, i), k - 1)
         IN  [targets |-> <<population[i]>> \o rest.targets, rng |-> rest.rng]

\* -- a handler in progress: the node state so far, the datagrams handed to
\*    _send_to_addr so far (with whether the send succeeded), and whether an
\*    exception has left the handler
Run(s, out, raised) == [s |-> s, out |-> out, raised |-> raised]

\* int(time.time() * 1000)
NowMs(t) == t * 1000

\* The msg_id uuid4 gives an envelope that is not a GOSSIP: no code reads it,
\* and the model does not tell these ids apart.
OtherUuid == 0 - 2

\* two addresses that parse as "host:port" and that the socket cannot send
\* to: a port above 65535, and a host without a route
BadPort == 0 - 3
NoRoute == 0 - 4

\* _send_to_addr: addr.rsplit(":", 1) / int(port_s) raise on an address that
\* is not "host:port" (here: the empty string); the exception is swallowed
\* and the send is not counted
SendOk(addr) == addr # 0

\* what transport.sendto does with the datagram.  On a closed transport it
\* raises (AttributeError, swallowed by _send_to_addr).  The socket's
\* OverflowError for a port out of range is a fatal error of the transport:
\* sendto returns and the transport is closed once the running callback has
\* returned.  An OSError of the socket is handed to error_received and
\* sendto returns.
sendto(s, addr) ==
    CASE s.transport = "closed" -> "raised"
      [] s.transport # "closed" /\ addr = BadPort -> "fatal"
      [] s.transport # "closed" /\ addr = NoRoute -> "refused"
      [] OTHER -> "sent"

\* an entry of out: ok tells that _send_to_addr counted the send, left that
\* the datagram left the socket
_send_to_addr(r, msg, addr) ==
    IF r.s.transport = "none" THEN r
    ELSE IF ~ SendOk(addr) \/ sendto(r.s, addr) = "raised"
    THEN Run(r.s, Append(r.out, [to |-> addr, msg |-> msg, ok |-> FALSE,
                                 left |-> FALSE]), r.raised)
    ELSE Run([r.s EXCEPT !.stats_sent = @ + 1,
                         !.transport = IF sendto(r.s, addr) = "fatal"
                                       THEN "closing" ELSE @],
             Append(r.out, [to |-> addr, msg |-> msg, ok |-> TRUE,
                            left |-> sendto(r.s, addr) = "sent"]), r.raised)

\* the event loop after a callback has returned: a transport that met a
\* fatal error is closed (_call_connection_lost closes the socket)
Settle(s) == [s EXCEPT !.transport = IF @ = "closing" THEN "closed" ELSE @]

\* _evict_oldest_peer: min() returns the first key, in dict order, whose
\* last_seen is minimal
_evict_oldest_peer(s) ==
    IF s.peers = <<>> THEN s
    ELSE LET oldest == CHOOSE i \in DOMAIN s.peers :
                          /\ \A j \in DOMAIN s.peers :
                                 s.peers[i].last_seen <= s.peers[j].last_seen
                          /\ \A j \in 1..(i - 1) :
                                 s.peers[j].last_seen > s.peers[i].last_seen
         IN  [s EXCEPT !.peers = RemoveAt(@, oldest)]

\* _add_peer; the mutant drops the self-address test
_add_peer_NoSelfCheck(s, node_id, addr, now) ==
    IF addr \in PeerSet(s)
    THEN LET i == PeerIndex(s, addr)
         IN  [s EXCEPT !.peers[i].last_seen = now,
                       !.peers[i].node_id = IF node_id # <<>> THEN node_id ELSE @]
    ELSE LET s1 == IF Len(s.peers) >= s.cfg.peer_limit
                   THEN _evict_oldest_peer(s) ELSE s
         IN  [s1 EXCEPT !.peers = Append(@, PeerInfo(node_id, addr, now))]

\* the mutant leaves the last_seen of a known peer as it is
_add_peer_NoRefresh(s, node_id, addr, now) ==
    IF addr = s.addr THEN s
    ELSE IF addr \in PeerSet(s)
    THEN LET i == PeerIndex(s, addr)
         IN  [s EXCEPT !.peers[i].node_id = IF node_id # <<>> THEN node_id ELSE @]
    ELSE LET s1 == IF Len(s.peers) >= s.cfg.peer_limit
                   THEN _evict_oldest_peer(s) ELSE s
         IN  [s1 EXCEPT !.peers = Append(@, PeerInfo(node_id, addr, now))]

_add_peer(s, node_id, addr, now) ==
    IF addr = s.addr THEN s
    ELSE IF addr \in PeerSet(s)
    THEN LET i == PeerIndex(s, addr)
         IN  [s EXCEPT !.peers[i].last_seen = now,
                       !.peers[i].node_id = IF node_id # <<>> THEN node_id ELSE @]
    ELSE LET s1 == IF Len(s.peers) >= s.cfg.peer_limit
                   THEN _evict_oldest_peer(s) ELSE s
         IN  [s1 EXCEPT !.peers = Append(@, PeerInfo(node_id, addr, now))]

\* _remove_peer
_remove_peer(s, addr) ==
    [s EXCEPT !.peers = SelectPeers(@, PeerSet(s) \ {addr})]

\* _send_peers_list: the first max_peers entries in dict order
_send_peers_list(r, target_addr, max_peers, now) ==
    LET firsts == SliceTo(r.s.peers, max_peers)
        entries == [i \in DOMAIN firsts |->
                       [node_id |-> firsts[i].node_id, addr |-> firsts[i].addr]]
    IN  _send_to_addr(r, peers_list(r.s.node_id, r.s.addr, entries, OtherUuid, NowMs(now)),
                      target_addr)

\* the while loop of _mark_seen
RECURSIVE EvictSeen(_)
EvictSeen(s) ==
    IF Len(s.seen) > SEEN_SET_MAX
    THEN EvictSeen([s EXCEPT !.seen = Tail(@),
                             !.message_store = RemoveKey(@, Head(s.seen))])
    ELSE s

\* a mutant that records the id and stores no envelope
_mark_seen_IdOnly(s, msg_id, msg) ==
    EvictSeen([s EXCEPT !.seen = IF msg_id \in SeqSet(@) THEN @ ELSE Append(@, msg_id)])

\* _mark_seen(msg_id, msg); the mutant keeps the evicted id's envelope in the
\* store
_mark_seen_KeepStore(s, msg_id, msg) ==
    LET s1 == [s EXCEPT !.seen = IF msg_id \in SeqSet(@) THEN @ ELSE Append(@, msg_id),
                        !.message_store = SetKey(@, msg_id, msg)]
    IN  [s1 EXCEPT !.seen = SliceLast(@, SEEN_SET_MAX)]

_mark_seen(s, msg_id, msg) ==
    EvictSeen([s EXCEPT !.seen = IF msg_id \in SeqSet(@) THEN @ ELSE Append(@, msg_id),
                        !.message_store = SetKey(@, msg_id, msg)])


\* ------------------------------------------------------------------ handlers
\* Each handler takes the node state s, the decoded envelope msg, the clock
\* reading now and fresh, the uuid4 values the handler would draw for GOSSIP
\* envelopes, in order.  msg.payload.get(...) on a payload that is not a
\* mapping raises AttributeError, which leaves the handler where it stands.

Raise(r) == [r EXCEPT !.raised = TRUE]

\* default of _send_peers_list(max_peers=20) and of payload.get("max_peers", 20)
DefaultMaxPeers == 20

\* the mutant admits every HELLO
_handle_hello_NoPow(s, msg, now) ==
    _send_peers_list(Run(_add_peer(s, msg.sender_id, msg.sender_addr, now), <<>>, FALSE),
                     msg.sender_addr, DefaultMaxPeers, now)

_handle_hello(s, msg, now) ==
    LET admit == _send_peers_list(
                     Run(_add_peer(s, msg.sender_id, msg.sender_addr, now), <<>>, FALSE),
                     msg.sender_addr, DefaultMaxPeers, now)
    IN  IF s.cfg.pow_k > 0
        THEN IF ~ msg.payload.isdict THEN Run(s, <<>>, TRUE)
             ELSE IF ~ validate_pow(msg.sender_id,
                                    Get(msg.payload.items, "pow", None), s.cfg.pow_k)
             THEN Run(s, <<>>, FALSE)
             ELSE admit
        ELSE admit

\* the mutant touches the sender before it looks at the peer table
_handle_get_peers_TouchFirst(s, msg, now) ==
    IF ~ msg.payload.isdict THEN Run(s, <<>>, TRUE)
    ELSE LET max_peers == Get(msg.payload.items, "max_peers", DefaultMaxPeers)
             s1 == _add_peer(s, msg.sender_id, msg.sender_addr, now)
         IN  IF s.cfg.pow_k > 0 /\ msg.sender_addr \notin PeerSet(s)
             THEN Run(s1, <<>>, FALSE)
             ELSE _send_peers_list(Run(s1, <<>>, FALSE), msg.sender_addr, max_peers, now)

_handle_get_peers(s, msg, now) ==
    IF ~ msg.payload.isdict THEN Run(s, <<>>, TRUE)
    ELSE LET max_peers == Get(msg.payload.items, "max_peers", DefaultMaxPeers)
         IN  IF s.cfg.pow_k > 0 /\ msg.sender_addr \notin PeerSet(s)
             THEN Run(s, <<>>, FALSE)
             ELSE _send_peers_list(
                      Run(_add_peer(s, msg.sender_id, msg.sender_addr, now), <<>>, FALSE),
                      msg.sender_addr, max_peers, now)

\* the for loop of _handle_peers_list
RECURSIVE AddListed(_, _, _)
AddListed(s, peers, now) ==
    IF peers = <<>> THEN s
    ELSE LET p == Head(peers)
             pid == Get(p, "node_id", <<>>)
             paddr == Get(p, "addr", 0)
         IN  AddListed(IF paddr # 0 /\ paddr # s.addr
                       THEN _add_peer(s, pid, paddr, now) ELSE s,
                       Tail(peers), now)

\* the mutant adds the sender and none of the listed peers
_handle_peers_list_SenderOnly(s, msg, now) ==
    IF ~ msg.payload.isdict THEN Run(s, <<>>, TRUE)
    ELSE Run(_add_peer(s, msg.sender_id, msg.sender_addr, now), <<>>, FALSE)

_handle_peers_list(s, msg, now) ==
    IF ~ msg.payload.isdict THEN Run(s, <<>>, TRUE)
    ELSE LET peers == Get(msg.payload.items, "peers", <<>>)
         IN  Run(AddListed(_add_peer(s, msg.sender_id, msg.sender_addr, now),
                           peers, now), <<>>, FALSE)

\* the for loop of _forward_gossip, from the i-th target on
RECURSIVE ForwardLoop(_, _, _, _, _, _, _)
ForwardLoop(r, targets, i, original, new_ttl, now, fresh) ==
    IF i > Len(targets) THEN r
    ELSE LET items == original.payload.items
             fwd == gossip(r.s.node_id, r.s.addr,
                           Get(items, "data", ""),
                           Get(items, "origin_id", r.s.node_id),
                           new_ttl,
                           Get(items, "topic", "news"),
                           Get(items, "origin_timestamp_ms", IntNone),
                           original.msg_id, fresh[i], NowMs(now))
         IN  ForwardLoop(_send_to_addr(r, fwd, targets[i]), targets, i + 1,
                         original, new_ttl, now, fresh)

\* candidates = [a for a in self.peers if a != original.sender_addr]
RECURSIVE Without(_, _)
Without(addrs, a) ==
    IF addrs = <<>> THEN <<>>
    ELSE (IF Head(addrs) # a THEN <<Head(addrs)>> ELSE <<>>) \o Without(Tail(addrs), a)

\* the mutant samples from the whole table, the sender included
_forward_gossip_NoExclude(r, original, new_ttl, now, fresh) ==
    LET candidates == PeerAddrs(r.s)
        k == Min2(r.s.cfg.fanout, Len(candidates))
    IN  IF k = 0 THEN r
        ELSE LET drawn == Sample(r.s.rng, candidates, k)
             IN  ForwardLoop([r EXCEPT !.s.rng = drawn.rng], drawn.targets, 1,
                             original, new_ttl, now, fresh)

\* the mutant draws from a stream seeded by the node's identity
_forward_gossip_SeededById(r, original, new_ttl, now, fresh) ==
    LET candidates == Without(PeerAddrs(r.s), original.sender_addr)
        k == Min2(r.s.cfg.fanout, Len(candidates))
    IN  IF k = 0 THEN r
        ELSE LET drawn == Sample(Head(r.s.node_id), candidates, k)
             IN  ForwardLoop(r, drawn.targets, 1, original, new_ttl, now, fresh)

_forward_gossip(r, original, new_ttl, now, fresh) ==
    LET candidates == Without(PeerAddrs(r.s), original.sender_addr)
        k == Min2(r.s.cfg.fanout, Len(candidates))
    IN  IF k = 0 THEN r
        ELSE LET drawn == Sample(r.s.rng, candidates, k)
             IN  ForwardLoop([r EXCEPT !.s.rng = drawn.rng], drawn.targets, 1,
                             original, new_ttl, now, fresh)

\* the mutant touches the sender before it looks at the seen set
_handle_gossip_TouchFirst(s, msg, now, fresh) ==
    LET s0 == _add_peer(s, msg.sender_id, msg.sender_addr, now)
    IN  IF msg.msg_id \in SeqSet(s.seen) THEN Run(s0, <<>>, FALSE)
        ELSE LET s1 == _mark_seen(s0, msg.msg_id, msg)
             IN  IF ~ msg.payload.isdict THEN Run(s1, <<>>, TRUE)
                 ELSE LET new_ttl == msg.ttl - 1
                      IN  IF new_ttl <= 0 THEN Run(s1, <<>>, FALSE)
                          ELSE _forward_gossip(Run(s1, <<>>, FALSE), msg, new_ttl,
                                               now, fresh)

\* the mutant forwards a copy while the decremented ttl is not negative
_handle_gossip_ForwardsLastHop(s, msg, now, fresh) ==
    IF msg.msg_id \in SeqSet(s.seen) THEN Run(s, <<>>, FALSE)
    ELSE LET s1 == _mark_seen(s, msg.msg_id, msg)
         IN  IF ~ msg.payload.isdict THEN Run(s1, <<>>, TRUE)
             ELSE LET s2 == _add_peer(s1, msg.sender_id, msg.sender_addr, now)
                      new_ttl == msg.ttl - 1
                  IN  IF new_ttl < 0 THEN Run(s2, <<>>, FALSE)
                      ELSE _forward_gossip(Run(s2, <<>>, FALSE), msg, new_ttl,
                                           now, fresh)

\* the mutant forwards without looking at the seen set
_handle_gossip_NoDupCheck(s, msg, now, fresh) ==
    LET s1 == _mark_seen(s, msg.msg_id, msg)
    IN  IF ~ msg.payload.isdict THEN Run(s1, <<>>, TRUE)
        ELSE LET s2 == _add_peer(s1, msg.sender_id, msg.sender_addr, now)
                 new_ttl == msg.ttl - 1
             IN  IF new_ttl <= 0 THEN Run(s2, <<>>, FALSE)
                 ELSE _forward_gossip(Run(s2, <<>>, FALSE), msg, new_ttl, now, fresh)

_handle_gossip(s, msg, now, fresh) ==
    IF msg.msg_id \in SeqSet(s.seen) THEN Run(s, <<>>, FALSE)
    ELSE LET s1 == _mark_seen(s, msg.msg_id, msg)
         IN  IF ~ msg.payload.isdict THEN Run(s1, <<>>, TRUE)
             ELSE LET s2 == _add_peer(s1, msg.sender_id, msg.sender_addr, now)
                      new_ttl == msg.ttl - 1
                  IN  IF new_ttl <= 0 THEN Run(s2, <<>>, FALSE)
                      ELSE _forward_gossip(Run(s2, <<>>, FALSE), msg, new_ttl,
                                           now, fresh)

\* the mutant takes a PING for news of its own pings and forgets them
_handle_ping_ForgetsPings(s, msg, now) ==
    LET s1 == [_add_peer(s, msg.sender_id, msg.sender_addr, now)
                   EXCEPT !.pending_pings = EmptyDict]
    IN  IF ~ msg.payload.isdict THEN Run(s1, <<>>, TRUE)
        ELSE LET ping_id == Get(msg.payload.items, "ping_id", 0)
                 seq == Get(msg.payload.items, "seq", 0)
             IN  _send_to_addr(Run(s1, <<>>, FALSE),
                               pong(s1.node_id, s1.addr, ping_id, seq,
                                    OtherUuid, NowMs(now)),
                               msg.sender_addr)

_handle_ping(s, msg, now) ==
    LET s1 == _add_peer(s, msg.sender_id, msg.sender_addr, now)
    IN  IF ~ msg.payload.isdict THEN Run(s1, <<>>, TRUE)
        ELSE LET ping_id == Get(msg.payload.items, "ping_id", 0)
                 seq == Get(msg.payload.items, "seq", 0)
             IN  _send_to_addr(Run(s1, <<>>, FALSE),
                               pong(s1.node_id, s1.addr, ping_id, seq,
                                    OtherUuid, NowMs(now)),
                               msg.sender_addr)

_handle_pong(s, msg, now) ==
    IF ~ msg.payload.isdict THEN Run(s, <<>>, TRUE)
    ELSE LET ping_id == Get(msg.payload.items, "ping_id", 0)
             s1 == IF ping_id \in DOMAIN s.pending_pings
                   THEN [s EXCEPT !.pending_pings = RemoveKey(@, ping_id)]
                   ELSE s
         IN  Run(_add_peer(s1, msg.sender_id, msg.sender_addr, now), <<>>, FALSE)

\* [mid for mid in ids if mid not in self.seen]
RECURSIVE Missing(_, _)
Missing(ids, seen) ==
    IF ids = <<>> THEN <<>>
    ELSE (IF Head(ids) \notin seen THEN <<Head(ids)>> ELSE <<>>)
         \o Missing(Tail(ids), seen)

\* _handle_ihave without the IWANT for the ids the node has not seen
_handle_ihave_NoWant(s, msg, now) ==
    IF ~ msg.payload.isdict THEN Run(s, <<>>, TRUE)
    ELSE Run(_add_peer(s, msg.sender_id, msg.sender_addr, now), <<>>, FALSE)

_handle_ihave(s, msg, now) ==
    IF ~ msg.payload.isdict THEN Run(s, <<>>, TRUE)
    ELSE LET ids == Get(msg.payload.items, "ids", <<>>)
             s1 == _add_peer(s, msg.sender_id, msg.sender_addr, now)
             missing == Missing(ids, SeqSet(s1.seen))
         IN  IF missing # <<>>
             THEN _send_to_addr(Run(s1, <<>>, FALSE),
                                iwant(s1.node_id, s1.addr, missing,
                                      OtherUuid, NowMs(now)),
                                msg.sender_addr)
             ELSE Run(s1, <<>>, FALSE)

\* the for loop of _handle_iwant over ids, from the i-th id on; n counts the
\* GOSSIP envelopes built so far
RECURSIVE ServeLoop(_, _, _, _, _, _, _)
ServeLoop(r, ids, i, n, to, now, fresh) ==
    IF i > Len(ids) THEN r
    ELSE IF ids[i] \notin DOMAIN r.s.message_store
    THEN ServeLoop(r, ids, i + 1, n, to, now, fresh)
    ELSE LET stored == r.s.message_store[ids[i]]
         IN  IF ~ stored.payload.isdict THEN Raise(r)
             ELSE LET items == stored.payload.items
                      fwd == gossip(r.s.node_id, r.s.addr,
                                    Get(items, "data", ""),
                                    Get(items, "origin_id", <<>>),
                                    1,
                                    Get(items, "topic", "news"),
                                    Get(items, "origin_timestamp_ms", IntNone),
                                    stored.msg_id, fresh[n + 1], NowMs(now))
                  IN  ServeLoop(_send_to_addr(r, fwd, to), ids, i + 1, n + 1,
                                to, now, fresh)

\* the mutant notes the requester and serves nothing
_handle_iwant_Silent(s, msg, now, fresh) ==
    IF ~ msg.payload.isdict THEN Run(s, <<>>, TRUE)
    ELSE Run(_add_peer(s, msg.sender_id, msg.sender_addr, now), <<>>, FALSE)

_handle_iwant(s, msg, now, fresh) ==
    IF ~ msg.payload.isdict THEN Run(s, <<>>, TRUE)
    ELSE LET ids == Get(msg.payload.items, "ids", <<>>)
             s1 == _add_peer(s, msg.sender_id, msg.sender_addr, now)
         IN  ServeLoop(Run(s1, <<>>, FALSE), ids, 1, 0, msg.sender_addr, now, fresh)

\* _on_datagram: decode, then the handler registered for the kind.  handler
\* names the handler that ran, "none" when the frame was dropped.
Dispatch(s, msg, now, fresh) ==
    CASE msg.msg_type = "HELLO" -> _handle_hello(s, msg, now)
      [] msg.msg_type = "GET_PEERS" -> _handle_get_peers(s, msg, now)
      [] msg.msg_type = "PEERS_LIST" -> _handle_peers_list(s, msg, now)
      [] msg.msg_type = "GOSSIP" -> _handle_gossip(s, msg, now, fresh)
      [] msg.msg_type = "PING" -> _handle_ping(s, msg, now)
      [] msg.msg_type = "PONG" -> _handle_pong(s, msg, now)
      [] msg.msg_type = "IHAVE" -> _handle_ihave(s, msg, now)
      [] msg.msg_type = "IWANT" -> _handle_iwant(s, msg, now, fresh)

_on_datagram(s, data, now, fresh) ==
    LET msg == from_bytes(data, fresh[1])
    IN  IF msg = None
        THEN [handler |-> "none", run |-> Run(s, <<>>, FALSE)]
        ELSE [handler |-> msg.msg_type, run |-> Dispatch(s, msg, now, fresh)]


\* ------------------------------------------------------------------ start-up, loops

\* the mutant sends its HELLO without the token
_bootstrap_NoToken(r, now) ==
    LET seed_addr == r.s.cfg.bootstrap
        r1 == _send_to_addr(r, hello(r.s.node_id, r.s.addr, None,
                                     OtherUuid, NowMs(now)), seed_addr)
    IN  _send_to_addr(r1, get_peers(r.s.node_id, r.s.addr, r.s.cfg.peer_limit,
                                    OtherUuid, NowMs(now)), seed_addr)

\* the mutant asks for the peer list before it introduces itself
_bootstrap_GetPeersFirst(r, now) ==
    LET seed_addr == r.s.cfg.bootstrap
        r1 == _send_to_addr(r, get_peers(r.s.node_id, r.s.addr, r.s.cfg.peer_limit,
                                         OtherUuid, NowMs(now)), seed_addr)
    IN  _send_to_addr(r1, hello(r.s.node_id, r.s.addr, r.s.pow_data,
                                OtherUuid, NowMs(now)), seed_addr)

\* _bootstrap: one HELLO, then one GET_PEERS, to the seed
_bootstrap(r, now) ==
    LET seed_addr == r.s.cfg.bootstrap
        r1 == _send_to_addr(r, hello(r.s.node_id, r.s.addr, r.s.pow_data,
                                     OtherUuid, NowMs(now)), seed_addr)
    IN  _send_to_addr(r1, get_peers(r.s.node_id, r.s.addr, r.s.cfg.peer_limit,
                                    OtherUuid, NowMs(now)), seed_addr)

\* run(), up to the creation of the loop tasks: nothing is awaited between
\* the PoW search and the end of _bootstrap, so no datagram is handled in
\* between.  cfg.bootstrap = 0 is None.
run(s, now) ==
    LET s1 == [s EXCEPT !.running = TRUE,
                        !.transport = "open",
                        !.pow_data = IF s.cfg.pow_k > 0
                                     THEN compute_pow(s.node_id, s.cfg.pow_k)
                                     ELSE None]
    IN  IF s1.cfg.bootstrap # 0 THEN _bootstrap(Run(s1, <<>>, FALSE), now)
        ELSE Run(s1, <<>>, FALSE)

\* the PING for loop of _ping_loop; the uuid of the n-th PING is numbered n
RECURSIVE PingLoop(_, _, _, _)
PingLoop(r, targets, i, now) ==
    IF i > Len(targets) THEN r
    ELSE LET seq == r.s.ping_seq + 1
             msg == ping(r.s.node_id, r.s.addr, seq, seq, OtherUuid, NowMs(now))
             s1 == [r.s EXCEPT !.ping_seq = seq,
                               !.pending_pings = SetKey(@, seq, now)]
         IN  PingLoop(_send_to_addr([r EXCEPT !.s = s1], msg, targets[i]),
                      targets, i + 1, now)

\* the mutant removes a peer as soon as its age has reached peer_timeout
_ping_loop_SweepAtTimeout(s, now) ==
    IF s.peers = <<>> THEN Run(s, <<>>, FALSE)
    ELSE LET alive == {s.peers[i].addr : i \in
                          {j \in DOMAIN s.peers :
                              ~ (now - s.peers[j].last_seen >= s.cfg.peer_timeout)}}
             fresh_pings == {pid \in DOMAIN s.pending_pings :
                                ~ (now - s.pending_pings[pid] > s.cfg.peer_timeout)}
             s1 == [s EXCEPT !.peers = SelectPeers(@, alive),
                             !.pending_pings = [pid \in fresh_pings |-> @[pid]]]
         IN  IF s1.peers = <<>> THEN Run(s1, <<>>, FALSE)
             ELSE LET k == Min2(s1.cfg.fanout, Len(s1.peers))
                      drawn == Sample(s1.rng, PeerAddrs(s1), k)
                  IN  PingLoop(Run([s1 EXCEPT !.rng = drawn.rng], <<>>, FALSE),
                               drawn.targets, 1, now)

\* the mutant pings a sample of the table and removes the silent peers last
_ping_loop_SweepLast(s, now) ==
    IF s.peers = <<>> THEN Run(s, <<>>, FALSE)
    ELSE LET alive == {s.peers[i].addr : i \in
                          {j \in DOMAIN s.peers :
                              ~ (now - s.peers[j].last_seen > s.cfg.peer_timeout)}}
             fresh_pings == {pid \in DOMAIN s.pending_pings :
                                ~ (now - s.pending_pings[pid] > s.cfg.peer_timeout)}
             k == Min2(s.cfg.fanout, Len(s.peers))
             drawn == Sample(s.rng, PeerAddrs(s), k)
             s1 == [s EXCEPT !.pending_pings = [pid \in fresh_pings |-> @[pid]]]
             r == PingLoop(Run([s1 EXCEPT !.rng = drawn.rng], <<>>, FALSE),
                           drawn.targets, 1, now)
         IN  Run([r.s EXCEPT !.peers = SelectPeers(@, alive)], r.out, r.raised)

\* the mutant chooses the targets of its PINGs before the sweep
_ping_loop_SampleFirst(s, now) ==
    IF s.peers = <<>> THEN Run(s, <<>>, FALSE)
    ELSE LET alive == {s.peers[i].addr : i \in
                          {j \in DOMAIN s.peers :
                              ~ (now - s.peers[j].last_seen > s.cfg.peer_timeout)}}
             fresh_pings == {pid \in DOMAIN s.pending_pings :
                                ~ (now - s.pending_pings[pid] > s.cfg.peer_timeout)}
             k == Min2(s.cfg.fanout, Len(s.peers))
             drawn == Sample(s.rng, PeerAddrs(s), k)
             s1 == [s EXCEPT !.peers = SelectPeers(@, alive),
                             !.pending_pings = [pid \in fresh_pings |-> @[pid]]]
         IN  PingLoop(Run([s1 EXCEPT !.rng = drawn.rng], <<>>, FALSE),
                      drawn.targets, 1, now)

\* one iteration of _ping_loop, after the sleep
_ping_loop(s, now) ==
    IF s.peers = <<>> THEN Run(s, <<>>, FALSE)
    ELSE LET alive == {s.peers[i].addr : i \in
                          {j \in DOMAIN s.peers :
                              ~ (now - s.peers[j].last_seen > s.cfg.peer_timeout)}}
             fresh_pings == {pid \in DOMAIN s.pending_pings :
                                ~ (now - s.pending_pings[pid] > s.cfg.peer_timeout)}
             s1 == [s EXCEPT !.peers = SelectPeers(@, alive),
                             !.pending_pings = [pid \in fresh_pings |-> @[pid]]]
         IN  IF s1.peers = <<>> THEN Run(s1, <<>>, FALSE)
             ELSE LET k == Min2(s1.cfg.fanout, Len(s1.peers))
                      drawn == Sample(s1.rng, PeerAddrs(s1), k)
                  IN  PingLoop(Run([s1 EXCEPT !.rng = drawn.rng], <<>>, FALSE),
                               drawn.targets, 1, now)

\* the send loop of _pull_loop and of _broadcast_gossip: one envelope, built
\* once for _pull_loop, sent to every target
RECURSIVE SendEach(_, _, _, _)
SendEach(r, msg, targets, i) ==
    IF i > Len(targets) THEN r
    ELSE SendEach(_send_to_addr(r, msg, targets[i]), msg, targets, i + 1)

\* the mutant announces the oldest ids of the seen set
_pull_loop_Oldest(s, now) ==
    IF s.peers = <<>> \/ s.seen = <<>> THEN Run(s, <<>>, FALSE)
    ELSE LET recent_ids == SliceTo(s.seen, s.cfg.ihave_max_ids)
             k == Min2(s.cfg.fanout, Len(s.peers))
             drawn == Sample(s.rng, PeerAddrs(s), k)
             ihave_msg == ihave(s.node_id, s.addr, recent_ids,
                                s.cfg.ihave_max_ids, OtherUuid, NowMs(now))
         IN  SendEach(Run([s EXCEPT !.rng = drawn.rng], <<>>, FALSE),
                      ihave_msg, drawn.targets, 1)

\* one iteration of _pull_loop, after the sleep
_pull_loop(s, now) ==
    IF s.peers = <<>> \/ s.seen = <<>> THEN Run(s, <<>>, FALSE)
    ELSE LET recent_ids == SliceLast(s.seen, s.cfg.ihave_max_ids)
             k == Min2(s.cfg.fanout, Len(s.peers))
             drawn == Sample(s.rng, PeerAddrs(s), k)
             ihave_msg == ihave(s.node_id, s.addr, recent_ids,
                                s.cfg.ihave_max_ids, OtherUuid, NowMs(now))
         IN  SendEach(Run([s EXCEPT !.rng = drawn.rng], <<>>, FALSE),
                      ihave_msg, drawn.targets, 1)

\* the mutant sends a new message to every peer, whatever the fanout
_broadcast_gossip_Flood(s, data, now, fresh) ==
    LET msg == gossip(s.node_id, s.addr, data, s.node_id, s.cfg.ttl, "news",
                      IntNone, IntNone, fresh[1], NowMs(now))
        s1 == _mark_seen(s, msg.msg_id, msg)
        candidates == PeerAddrs(s1)
        k == Len(candidates)
    IN  IF k = 0 THEN Run(s1, <<>>, FALSE)
        ELSE LET drawn == Sample(s1.rng, candidates, k)
                 fwd == gossip(s1.node_id, s1.addr, data, s1.node_id, s1.cfg.ttl,
                               "news", msg.payload.items.origin_timestamp_ms,
                               msg.msg_id, fresh[1], NowMs(now))
             IN  SendEach(Run([s1 EXCEPT !.rng = drawn.rng], <<>>, FALSE),
                          fwd, drawn.targets, 1)

\* the mutant looks for peers first and marks the message seen only when it
\* has somebody to send it to
_broadcast_gossip_MarkWhenSent(s, data, now, fresh) ==
    LET msg == gossip(s.node_id, s.addr, data, s.node_id, s.cfg.ttl, "news",
                      IntNone, IntNone, fresh[1], NowMs(now))
        candidates == PeerAddrs(s)
        k == Min2(s.cfg.fanout, Len(candidates))
    IN  IF k = 0 THEN Run(s, <<>>, FALSE)
        ELSE LET s1 == _mark_seen(s, msg.msg_id, msg)
                 drawn == Sample(s1.rng, candidates, k)
             IN  SendEach(Run([s1 EXCEPT !.rng = drawn.rng], <<>>, FALSE),
                          msg, drawn.targets, 1)

\* _broadcast_gossip(data); every per-target envelope is built from the same
\* arguments, so one envelope stands for them
_broadcast_gossip(s, data, now, fresh) ==
    LET msg == gossip(s.node_id, s.addr, data, s.node_id, s.cfg.ttl, "news",
                      IntNone, IntNone, fresh[1], NowMs(now))
        s1 == _mark_seen(s, msg.msg_id, msg)
        candidates == PeerAddrs(s1)
        k == Min2(s1.cfg.fanout, Len(candidates))
    IN  IF k = 0 THEN Run(s1, <<>>, FALSE)
        ELSE LET drawn == Sample(s1.rng, candidates, k)
                 fwd == gossip(s1.node_id, s1.addr, data, s1.node_id, s1.cfg.ttl,
                               "news", msg.payload.items.origin_timestamp_ms,
                               msg.msg_id, fresh[1], NowMs(now))
             IN  SendEach(Run([s1 EXCEPT !.rng = drawn.rng], <<>>, FALSE),
                          fwd, drawn.targets, 1)

\* one iteration of _input_loop on a line read from stdin: line.strip(), and
\* an empty line is skipped.  A line is "" (blank after strip) or its text.
_input_loop(s, line, now, fresh) ==
    IF line = "" THEN Run(s, <<>>, FALSE)
    ELSE _broadcast_gossip(s, line, now, fresh)


\* ------------------------------------------------------------------ the node and its environment

\* addresses are numbered 0 (the empty string) to MaxAddr
MaxAddr == 3
SelfAddr == 1

\* the addresses datagrams declare as their sender: "", the node's own, and
\* two other hosts
Senders == {0, SelfAddr, 2, MaxAddr}

\* the runs explored are those of at most MaxSteps events after start-up
MaxSteps == 3

\* largest peer_limit explored
MaxPeerLimit == 2

\* the node's own identity (uuid4().hex) and the identity senders declare
SelfId == <<1>>
PeerId == <<2>>

VARIABLES
    node,       \* the GossipNode: its attributes
    now,        \* the wall clock (time.time(), in seconds)
    last,       \* the last step: the event, the handler that ran, what it sent
    used,       \* ids that have appeared in a GOSSIP this node received or built
    forwarded,  \* inbound msg_ids for which the node ran its forwarding step, in order
    steps,      \* events since start-up
    codec,      \* an envelope on its way through to_bytes / from_bytes
    pw,         \* a proof-of-work token from compute_pow to validate_pow
    verified,   \* sender addresses whose HELLO passed validate_pow at this node
    twin,       \* a second node given the same configuration and the same datagrams
    net         \* several nodes and the datagrams in flight between them

vars == <<node, now, last, used, forwarded, steps, codec, pw, verified, twin, net>>

\* GossipConfig, with the source's defaults scaled to the model's universe
GossipConfig(peer_limit, fanout, ttl, pow_k, mode, bootstrap) ==
    [port |-> SelfAddr, bootstrap |-> bootstrap, fanout |-> fanout, ttl |-> ttl,
     peer_limit |-> peer_limit, peer_timeout |-> 1, seed |-> 0, mode |-> mode,
     ihave_max_ids |-> 1, pow_k |-> pow_k]

\* -- uuid4: the i-th value drawn in a step is the i-th id not yet used
RECURSIVE NthFree(_, _, _)
NthFree(taken, from, i) ==
    IF from \in taken THEN NthFree(taken, from + 1, i)
    ELSE IF i = 1 THEN from
    ELSE NthFree(taken, from + 1, i - 1)

Fresh == [i \in 1..(MaxAddr + 1) |-> NthFree(used, 1, i)]

\* ids of the GOSSIP envelopes among the sends of a step
GossipIds(out) ==
    {out[i].msg.msg_id : i \in {j \in DOMAIN out : out[j].msg.msg_type = "GOSSIP"}}

\* ids in the node's state
StateIds(s) == SeqSet(s.seen) \cup DOMAIN s.message_store

\* what a step leaves in `last`: the event; for a datagram the frame's form and
\* the kind, sender address and msg_id it declares; the handler that ran,
\* whether an exception left it, and the datagrams handed to _send_to_addr
Step(event, form, kind, sender_addr, msg_id, handler, r) ==
    [event |-> event, form |-> form, kind |-> kind, sender_addr |-> sender_addr,
     msg_id |-> msg_id, handler |-> handler, raised |-> r.raised, out |-> r.out]

\* a step that is not a datagram
Own(event, r) == Step(event, "", "", 0, IntNone, "none", r)

CodecIdle == [pc |-> "idle"]
PowIdle == [pc |-> "idle"]
TwinIdle == [pc |-> "idle"]
NetIdle == [pc |-> "idle"]

InitWith(configs) ==
    /\ node \in {GossipNode(cfg, SelfId, SelfAddr) : cfg \in configs}
    /\ now = 1
    /\ last = Own("init", Run(node, <<>>, FALSE))
    /\ used = {}
    /\ forwarded = <<>>
    /\ steps = 0
    /\ codec = CodecIdle
    /\ pw = PowIdle
    /\ verified = {}
    /\ twin = TwinIdle
    /\ net = NetIdle

\* the HELLO msg carries a token that validate_pow accepts at node s
Verified(s, msg) ==
    /\ s.cfg.pow_k > 0
    /\ msg.payload.isdict
    /\ validate_pow(msg.sender_id, Get(msg.payload.items, "pow", None), s.cfg.pow_k)

\* run(): construction to the start of the loops
Start ==
    /\ ~ node.running
    /\ LET r == run(node, now)
       IN  /\ node' = Settle(r.s)
           /\ last' = Own("run", r)
    /\ UNCHANGED <<now, used, forwarded, steps, codec, pw, verified, twin, net>>

\* the node is up and the run has events left
Running(budget) ==
    /\ node.running
    /\ steps < budget
    /\ steps' = steps + 1
    /\ UNCHANGED <<codec, pw, twin, net>>

\* a datagram of `frames` arrives: datagram_received -> _on_datagram
Receive(frames, budget) ==
    /\ Running(budget)
    /\ node.transport # "closed"
    /\ \E data \in frames :
          LET res == _on_datagram(node, data, now, Fresh)
              r == res.run
              msg == from_bytes(data, Fresh[1])
              inbound == IF res.handler = "GOSSIP" THEN {msg.msg_id} ELSE {}
          IN  /\ node' = Settle(r.s)
              /\ last' = Step("datagram", data.form, Get(data.doc, "msg_type", ""),
                              IF msg = None THEN 0 ELSE msg.sender_addr,
                              IF res.handler = "GOSSIP" THEN msg.msg_id ELSE IntNone,
                              res.handler, r)
              /\ used' = used \cup inbound \cup GossipIds(r.out)
              /\ forwarded' = IF res.handler = "GOSSIP" /\ r.out # <<>>
                              THEN Append(forwarded, msg.msg_id) ELSE forwarded
              /\ verified' = IF res.handler = "HELLO" /\ Verified(node, msg)
                             THEN verified \cup {msg.sender_addr} ELSE verified
    /\ UNCHANGED now

\* the ping loop wakes up
PingTick(budget) ==
    /\ Running(budget)
    /\ LET r == _ping_loop(node, now)
       IN  /\ node' = Settle(r.s)
           /\ last' = Own("ping_tick", r)
    /\ UNCHANGED <<now, used, forwarded, verified>>

\* the pull loop wakes up; the task exists in hybrid mode only
PullTick(budget) ==
    /\ Running(budget)
    /\ node.cfg.mode = "hybrid"
    /\ LET r == _pull_loop(node, now)
       IN  /\ node' = Settle(r.s)
           /\ last' = Own("pull_tick", r)
    /\ UNCHANGED <<now, used, forwarded, verified>>

\* the input loop reads a line of `lines`
Input(lines, budget) ==
    /\ Running(budget)
    /\ \E line \in lines :
          LET r == _input_loop(node, line, now, Fresh)
          IN  /\ node' = Settle(r.s)
              /\ last' = Own("input", r)
              /\ used' = used \cup StateIds(r.s)
    /\ UNCHANGED <<now, forwarded, verified>>

\* time passes
Tick(budget) ==
    /\ Running(budget)
    /\ now' = now + 1
    /\ UNCHANGED <<node, last, used, forwarded, verified>>

\* -- what the network can deliver

GossipPayload ==
    Payload([topic |-> "news", data |-> "d", origin_id |-> PeerId,
             origin_timestamp_ms |-> NowMs(1)])

\* frames that do not decode
BadFrames ==
    {Frame("undecodable", EmptyDict), Frame("notjson", EmptyDict),
     Frame("array", EmptyDict), Frame("object", EmptyDict),
     Frame("object", [msg_type |-> "UNKNOWN", sender_id |-> PeerId,
                      sender_addr |-> 2])}

\* ------------------------------------------------------------------ the peer table

\* one envelope of every kind from every sender, the node itself included;
\* the PEERS_LIST names the node itself, "" and another host
PeersEnvelopes ==
    UNION {
      {hello(PeerId, a, tok, OtherUuid, NowMs(1)) :
          tok \in {None, compute_pow(PeerId, 1)}}
      \cup {get_peers(PeerId, a, DefaultMaxPeers, OtherUuid, NowMs(1)),
            peers_list(PeerId, a,
                       <<[node_id |-> SelfId, addr |-> SelfAddr],
                         [node_id |-> PeerId, addr |-> 0],
                         [node_id |-> PeerId, addr |-> MaxAddr]>>,
                       OtherUuid, NowMs(1)),
            Message("GOSSIP", PeerId, a, GossipPayload, 2, 1, NowMs(1)),
            ping(PeerId, a, 1, 1, OtherUuid, NowMs(1)),
            pong(PeerId, a, 1, 1, OtherUuid, NowMs(1)),
            ihave(PeerId, a, <<1>>, 1, OtherUuid, NowMs(1)),
            iwant(PeerId, a, <<1>>, OtherUuid, NowMs(1))}
      : a \in Senders }

PeersFrames == {to_bytes(m) : m \in PeersEnvelopes}

\* every peer_limit from 0 up, with and without proof-of-work
PeersConfigs ==
    {GossipConfig(limit, 1, 2, k, "hybrid", 0) : limit \in 0..MaxPeerLimit, k \in {0, 1}}

InitPeers == InitWith(PeersConfigs)

NextPeers ==
    \/ Start
    \/ Receive(PeersFrames, MaxSteps)
    \/ PingTick(MaxSteps)
    \/ PullTick(MaxSteps)
    \/ Input({"", "d"}, MaxSteps)
    \/ Tick(MaxSteps)

SpecPeers == InitPeers /\ [][NextPeers]_vars

\* C1: the peer table never holds more than peer_limit entries, whatever
\* peer_limit is configured
C1_PeerTableBounded == Len(node.peers) <= node.cfg.peer_limit

\* the bound as the code keeps it: the table never holds more than
\* max(peer_limit, 1) entries
PeerTableBoundedFromOne ==
    Len(node.peers) <= IF node.cfg.peer_limit >= 1 THEN node.cfg.peer_limit ELSE 1

\* C2: the node's own address is never a key of its peer table
C2_NoSelfPeer == SelfAddr \notin PeerSet(node)

\* a PEERS_LIST declaring the node's own address as its sender, and naming the
\* node among its entries, was handled and its other entry was recorded
C2_Witness ==
    /\ last.handler = "PEERS_LIST"
    /\ last.sender_addr = SelfAddr
    /\ MaxAddr \in PeerSet(node)

\* ------------------------------------------------------------------ the seen set

\* GOSSIP msg_ids the network uses: "" and MaxMsgId others
MaxMsgId == 2
MsgIds == 0..MaxMsgId

\* events after start-up in the runs of the seen set
MaxSeenSteps == 5

\* GOSSIP envelopes of every id from two hosts, with one hop or two left
SeenEnvelopes ==
    {Message("GOSSIP", PeerId, a, GossipPayload, ttl, id, NowMs(1)) :
        a \in {2, 3}, ttl \in {1, 2}, id \in MsgIds}

SeenFrames == {to_bytes(m) : m \in SeenEnvelopes}

SeenConfigs == {GossipConfig(MaxPeerLimit, 1, 2, 0, "push", 0)}

InitSeen == InitWith(SeenConfigs)

NextSeen ==
    \/ Start
    \/ Receive(SeenFrames, MaxSeenSteps)
    \/ Input({"d"}, MaxSeenSteps)

SpecSeen == InitSeen /\ [][NextSeen]_vars

\* C3: the seen set never holds more than SEEN_SET_MAX ids, and every key of
\* the message store is in the seen set
C3_SeenBounded ==
    /\ Len(node.seen) <= SEEN_SET_MAX
    /\ DOMAIN node.message_store \subseteq SeqSet(node.seen)

\* the seen set is full and an id the node had marked has been evicted from it
C3_Witness ==
    /\ Len(node.seen) = SEEN_SET_MAX
    /\ \E id \in used : id \notin SeqSet(node.seen) /\ id \notin DOMAIN node.message_store

\* C4: for each GOSSIP msg_id the node runs its forwarding step at most once
C4_ForwardedOnce ==
    \A i, j \in DOMAIN forwarded : forwarded[i] = forwarded[j] => i = j

\* C4, as the code keeps it: the node runs its forwarding step for a msg_id
\* only on an arrival that finds the id outside the seen set, and the id is in
\* the seen set afterwards; so an id is forwarded at most once while the seen
\* set holds it, and an id the node injected is not forwarded while it is held
C4_ForwardedOnlyIfUnseen ==
    [][Len(forwarded') > Len(forwarded) =>
          /\ forwarded'[Len(forwarded')] \notin SeqSet(node.seen)
          /\ forwarded'[Len(forwarded')] \in SeqSet(node'.seen)]_vars

\* a GOSSIP whose id the node had forwarded arrived again, with peers to send
\* to and no id evicted so far, and nothing was sent
C4_Witness ==
    /\ last.handler = "GOSSIP"
    /\ last.msg_id \in SeqSet(forwarded)
    /\ last.msg_id \in SeqSet(node.seen)
    /\ last.out = <<>>
    /\ Len(node.peers) = MaxPeerLimit
    /\ Cardinality(used) <= SEEN_SET_MAX

\* ------------------------------------------------------------------ dispatch

\* one envelope of every kind from a peer, with the payload a mapping and with
\* the payload another JSON value
DispatchEnvelopes ==
    LET good == {hello(PeerId, 2, compute_pow(PeerId, 1), OtherUuid, NowMs(1)),
                 hello(PeerId, 2, None, OtherUuid, NowMs(1)),
                 get_peers(PeerId, 2, DefaultMaxPeers, OtherUuid, NowMs(1)),
                 peers_list(PeerId, 2, <<[node_id |-> PeerId, addr |-> MaxAddr]>>,
                            OtherUuid, NowMs(1)),
                 Message("GOSSIP", PeerId, 2, GossipPayload, 2, 1, NowMs(1)),
                 ping(PeerId, 2, 1, 1, OtherUuid, NowMs(1)),
                 pong(PeerId, 2, 1, 1, OtherUuid, NowMs(1)),
                 ihave(PeerId, 2, <<1>>, 1, OtherUuid, NowMs(1)),
                 iwant(PeerId, 2, <<1>>, OtherUuid, NowMs(1))}
    IN  good \cup {[m EXCEPT !.payload = NotADict] : m \in good}

DispatchFrames == BadFrames \cup {to_bytes(m) : m \in DispatchEnvelopes}

DispatchConfigs == {GossipConfig(MaxPeerLimit, 1, 2, k, "push", 0) : k \in {0, 1}}

InitDispatch == InitWith(DispatchConfigs)

NextDispatch ==
    \/ Start
    \/ Receive(DispatchFrames, MaxSteps)
    \/ PingTick(MaxSteps)
    \/ Input({"d"}, MaxSteps)

SpecDispatch == InitDispatch /\ [][NextDispatch]_vars

\* C5: a received datagram is either dropped (the frame does not decode or its
\* kind is not one of the eight) with the node unchanged and nothing sent, or
\* the one handler registered for its kind runs to completion
C5_DroppedOrHandled ==
    [][(steps' # steps /\ now' = now /\ last'.event = "datagram") =>
          \/ /\ last'.handler = "none"
             /\ last'.form # "object" \/ last'.kind \notin MSG_TYPES
             /\ node' = node
             /\ last'.out = <<>>
          \/ /\ last'.form = "object"
             /\ last'.kind \in MSG_TYPES
             /\ last'.handler = last'.kind
             /\ ~ last'.raised]_vars

\* the part of C5 the code keeps: a frame that does not decode, or whose kind
\* is not one of the eight, changes nothing and sends nothing; any other
\* frame starts the handler registered for its kind and no other
DroppedOrDispatched ==
    [][(steps' # steps /\ now' = now /\ last'.event = "datagram") =>
          IF last'.form # "object" \/ last'.kind \notin MSG_TYPES
          THEN last'.handler = "none" /\ node' = node /\ last'.out = <<>>
          ELSE last'.handler = last'.kind]_vars

\* ------------------------------------------------------------------ the codec

\* the slots of an envelope, and those from_bytes is said to require
Slots ==
    {"version", "msg_id", "msg_type", "sender_id", "sender_addr",
     "timestamp_ms", "ttl", "payload"}
RequiredSlots == {"msg_type", "msg_id", "sender_id", "sender_addr"}

\* envelopes as the factories build them
CodecEnvelopes ==
    UNION {
      {hello(id, a, tok, u, t) : tok \in {None, compute_pow(PeerId, 1)}}
      \cup {get_peers(id, a, mp, u, t) : mp \in {0, DefaultMaxPeers}}
      \cup {peers_list(id, a, ps, u, t) :
               ps \in {<<>>, <<[node_id |-> PeerId, addr |-> 2]>>}}
      \cup {gossip(id, a, "d", PeerId, ttl, "news", ots, mid, u, t) :
               ttl \in {0, 1, DefaultTtl}, ots \in {0, 5}, mid \in {0, 3}}
      \cup {ping(id, a, 1, 1, u, t), pong(id, a, 1, 1, u, t)}
      \cup {ihave(id, a, ids, 1, u, t) : ids \in {<<>>, <<1, 2>>}}
      \cup {iwant(id, a, ids, u, t) : ids \in {<<>>, <<1, 2>>}}
      : id \in {<<>>, PeerId}, a \in {0, 2}, u \in {1, 2}, t \in {0, NowMs(1)} }

\* d restricted to the keys in K
Restrict(d, K) == [key \in (K \cap DOMAIN d) |-> d[key]]

\* what the network can deliver: frames that do not decode, and records that
\* hold any part of the slots of an envelope, with a known or an unknown kind
CodecFrames ==
    LET m == ping(PeerId, 2, 1, 1, 1, NowMs(1))
        docs == {to_dict(m), [to_dict(m) EXCEPT !.msg_type = "UNKNOWN"]}
    IN  BadFrames \cup {Frame("object", Restrict(d, K)) : d \in docs, K \in SUBSET Slots}

Codec(pc, built, m, frame, result, dropped) ==
    [pc |-> pc, built |-> built, m |-> m, frame |-> frame, result |-> result,
     dropped |-> dropped]

InitCodec == InitWith({GossipConfig(MaxPeerLimit, 1, 2, 0, "push", 0)})

\* a factory builds an envelope and to_bytes encodes it
Encode ==
    /\ codec.pc = "idle"
    /\ \E m \in CodecEnvelopes :
          codec' = Codec("framed", TRUE, m, to_bytes(m), None, FALSE)
    /\ UNCHANGED <<node, now, last, used, forwarded, steps, pw, verified, twin, net>>

\* a frame comes from the network
Arrive ==
    /\ codec.pc = "idle"
    /\ \E frame \in CodecFrames :
          codec' = Codec("framed", FALSE, None, frame, None, FALSE)
    /\ UNCHANGED <<node, now, last, used, forwarded, steps, pw, verified, twin, net>>

\* from_bytes decodes the frame, and the node's _on_datagram is given it
Decode ==
    /\ codec.pc = "framed"
    /\ codec' = [codec EXCEPT
                   !.pc = "decoded",
                   !.result = from_bytes(codec.frame, Fresh[1]),
                   !.dropped = (_on_datagram(node, codec.frame, now, Fresh).handler
                                   = "none")]
    /\ UNCHANGED <<node, now, last, used, forwarded, steps, pw, verified, twin, net>>

NextCodec == Encode \/ Arrive \/ Decode

SpecCodec == InitCodec /\ [][NextCodec]_vars

\* C6: round trip: decoding the encoding of a factory-built envelope succeeds
\* and gives back the envelope, equal in every field
C6_RoundTrip ==
    (codec.pc = "decoded" /\ codec.built) =>
        /\ codec.result # None
        /\ \A slot \in Slots : codec.result[slot] = codec.m[slot]
        /\ codec.result = codec.m

\* a GOSSIP built by its factory with the default ttl went through both ways
C6_Witness ==
    /\ codec.pc = "decoded"
    /\ codec.built
    /\ codec.m.msg_type = "GOSSIP"
    /\ codec.m.ttl = DefaultTtl
    /\ codec.result = codec.m

\* the record of a decoded frame, and whether its kind is one of the eight
Doc == codec.frame.doc
KnownKind == codec.frame.form = "object" /\ Get(Doc, "msg_type", "") \in MSG_TYPES

\* C7: from_bytes returns None, and the datagram is dropped, for every frame
\* that is not decodable text, is not a record, has a kind outside the eight,
\* or lacks one of msg_type, msg_id, sender_id, sender_addr
C7_RejectsMissingSlot ==
    (codec.pc = "decoded"
        /\ (~ KnownKind \/ ~ (RequiredSlots \subseteq DOMAIN Doc))) =>
        codec.result = None /\ codec.dropped

\* C7, as the code keeps it: from_bytes returns None, and the datagram is
\* dropped, exactly for the frames that are not decodable text, are not a
\* record, or have a msg_type that is missing or outside the eight kinds; a
\* record of a known kind that lacks msg_id, sender_id or sender_addr decodes,
\* with a fresh msg_id, sender_id "" and sender_addr ""
C7_RejectsUnknownKind ==
    codec.pc = "decoded" =>
        /\ (codec.result = None) <=> ~ KnownKind
        /\ codec.dropped <=> ~ KnownKind
        /\ KnownKind =>
              /\ "msg_id" \notin DOMAIN Doc => codec.result.msg_id = Fresh[1]
              /\ "sender_id" \notin DOMAIN Doc => codec.result.sender_id = <<>>
              /\ "sender_addr" \notin DOMAIN Doc => codec.result.sender_addr = 0

\* a record that holds a known kind and nothing else was decoded
C7_Witness ==
    /\ codec.pc = "decoded"
    /\ DOMAIN Doc = {"msg_type"}
    /\ KnownKind
    /\ codec.result # None
    /\ ~ codec.dropped

\* C8: a record of a known kind that omits version, ttl, timestamp_ms or
\* payload decodes, with version 1, ttl 0, timestamp_ms 0 and payload {}
C8_Defaults ==
    (codec.pc = "decoded" /\ KnownKind) =>
        /\ codec.result # None
        /\ "version" \notin DOMAIN Doc => codec.result.version = 1
        /\ "ttl" \notin DOMAIN Doc => codec.result.ttl = 0
        /\ "timestamp_ms" \notin DOMAIN Doc => codec.result.timestamp_ms = 0
        /\ "payload" \notin DOMAIN Doc => codec.result.payload = Payload(EmptyDict)

\* a PING that carries msg_type, sender_id and sender_addr only was decoded
C8_Witness ==
    /\ codec.pc = "decoded"
    /\ DOMAIN Doc = {"msg_type", "sender_id", "sender_addr"}
    /\ codec.result # None
    /\ codec.result.msg_type = "PING"
    /\ codec.result.ttl = 0

\* ------------------------------------------------------------------ proof of work

\* identities that compute and claim tokens
PowIds == {<<1>>, <<2>>, <<3>>, <<1, 2>>, <<2, 1>>}

Pow(pc, node_id, k, token, claimed_id, shown, required_k, ok, admitted) ==
    [pc |-> pc, node_id |-> node_id, k |-> k, token |-> token,
     claimed_id |-> claimed_id, shown |-> shown, required_k |-> required_k,
     ok |-> ok, admitted |-> admitted]

InitPow == InitWith({GossipConfig(MaxPeerLimit, 1, 2, 0, "push", 0)})

\* a node computes the token of its identity at start-up; the step is taken
\* when the search loop has ended
Compute ==
    /\ pw.pc = "idle"
    /\ \E id \in PowIds, k \in 0..MaxK :
          /\ compute_pow(id, k) # None
          /\ pw' = Pow("computed", id, k, compute_pow(id, k), <<>>, None, 0,
                       FALSE, FALSE)
    /\ UNCHANGED <<node, now, last, used, forwarded, steps, codec, verified, twin, net>>

\* the token as a sender may present it: as computed, with its nonce altered,
\* without its nonce, empty, or not at all
Shown(token) ==
    {token, [token EXCEPT !.nonce = @ + 1],
     [key \in DOMAIN token \ {"nonce"} |-> token[key]], EmptyDict, None}

\* a HELLO carrying the token under a claimed identity reaches a node that
\* requires difficulty required_k: validate_pow, and _handle_hello around it
Present ==
    /\ pw.pc = "computed"
    /\ \E id \in PowIds, shown \in Shown(pw.token), required_k \in 0..(MaxK + 1) :
          LET s == GossipNode(GossipConfig(MaxPeerLimit, 1, 2, required_k, "push", 0),
                              SelfId, SelfAddr)
              r == _handle_hello(s, hello(id, 2, shown, OtherUuid, NowMs(now)), now)
          IN  pw' = [pw EXCEPT !.pc = "presented",
                               !.claimed_id = id,
                               !.shown = shown,
                               !.required_k = required_k,
                               !.ok = validate_pow(id, shown, required_k),
                               !.admitted = (2 \in PeerSet(r.s))]
    /\ UNCHANGED <<node, now, last, used, forwarded, steps, codec, verified, twin, net>>

NextPow == Compute \/ Present

SpecPow == InitPow /\ [][NextPow]_vars

\* C9: the token compute_pow returns for id and k validates for id at k, and
\* its nonce is the smallest n >= 0 whose digest of id || decimal(n) begins
\* with k zeros
C9_PowComplete ==
    /\ pw.pc \in {"computed", "presented"} =>
          /\ pw.token.difficulty_k = pw.k
          /\ pw.token.nonce >= 0
          /\ pw.token.digest_hex = sha256_hexdigest(PowData(pw.node_id, pw.token.nonce))
          /\ StartsWith(pw.token.digest_hex, Zeros(pw.k))
          /\ \A n \in 0..(pw.token.nonce - 1) :
                ~ StartsWith(sha256_hexdigest(PowData(pw.node_id, n)), Zeros(pw.k))
    /\ (pw.pc = "presented" /\ pw.claimed_id = pw.node_id /\ pw.shown = pw.token
            /\ pw.required_k = pw.k) => pw.ok

\* a token of the largest difficulty, found after a search past nonce 0, was
\* presented under its own identity at that difficulty and accepted
C9_Witness ==
    /\ pw.pc = "presented"
    /\ pw.k = MaxK
    /\ pw.token.nonce > 0
    /\ pw.claimed_id = pw.node_id
    /\ pw.shown = pw.token
    /\ pw.required_k = pw.k
    /\ pw.ok

\* C10: a token computed for an identity is rejected under any other claimed
\* identity, a token whose nonce was altered is rejected, and a node that
\* requires proof of work does not admit the sender of a rejected HELLO
C10_PowBound ==
    pw.pc = "presented" =>
        /\ (pw.claimed_id # pw.node_id /\ pw.shown = pw.token) => ~ pw.ok
        /\ (pw.claimed_id = pw.node_id /\ pw.shown # pw.token) => ~ pw.ok
        /\ (pw.required_k > 0 /\ ~ pw.ok) => ~ pw.admitted

\* a token was replayed, unaltered and at the difficulty it was computed for,
\* under another identity to a node that requires it, and was turned away
C10_Witness ==
    /\ pw.pc = "presented"
    /\ pw.claimed_id # pw.node_id
    /\ pw.shown = pw.token
    /\ pw.k > 0
    /\ pw.required_k = pw.k
    /\ ~ pw.ok
    /\ ~ pw.admitted

\* C11: validate_pow is false when the token is absent or empty, has no nonce,
\* or declares a difficulty below the required one; so the token computed at
\* difficulty k is rejected at k + 1, also when its digest has k + 1 zeros
C11_PowRejects ==
    pw.pc = "presented" =>
        /\ (pw.shown = None \/ pw.shown = EmptyDict) => ~ pw.ok
        /\ "nonce" \notin DOMAIN pw.shown => ~ pw.ok
        /\ Get(pw.shown, "difficulty_k", 0) < pw.required_k => ~ pw.ok
        /\ (pw.claimed_id = pw.node_id /\ pw.shown = pw.token
                /\ pw.required_k = pw.k + 1) => ~ pw.ok

\* a token whose digest has one zero more than its difficulty asks for was
\* presented under its own identity at the next difficulty, and was rejected
C11_Witness ==
    /\ pw.pc = "presented"
    /\ pw.claimed_id = pw.node_id
    /\ pw.shown = pw.token
    /\ pw.required_k = pw.k + 1
    /\ StartsWith(pw.token.digest_hex, Zeros(pw.k + 1))
    /\ ~ pw.ok

\* ------------------------------------------------------------------ admission and refresh

\* HELLO envelopes with a token that fails and GET_PEERS envelopes, from
\* every sender
AdmissionEnvelopes ==
    UNION {
      {hello(PeerId, a, tok, OtherUuid, NowMs(1)) :
          tok \in Shown(compute_pow(PeerId, 1)) \cup {compute_pow(PeerId, 0)}}
      \cup {get_peers(PeerId, a, DefaultMaxPeers, OtherUuid, NowMs(1))}
      : a \in Senders }

\* the node requires PoW and msg is a HELLO that fails verification or a
\* GET_PEERS from an address outside the peer table
AdmissionDrop(s, msg) ==
    /\ s.cfg.pow_k > 0
    /\ \/ msg.msg_type = "HELLO" /\ ~ Verified(s, msg)
       \/ msg.msg_type = "GET_PEERS" /\ msg.sender_addr \notin PeerSet(s)

\* C18: when PoW is required, a HELLO whose token fails verification and a
\* GET_PEERS from an address that is not in the peer table leave the node as
\* it was (peer table, seen set, store, pending pings) and send nothing
C18_AdmissionDropsPreserve ==
    node.running =>
        \A msg \in AdmissionEnvelopes :
            AdmissionDrop(node, msg) =>
                LET r == _on_datagram(node, to_bytes(msg), now, Fresh).run
                IN  /\ r.s = node
                    /\ r.out = <<>>
                    /\ ~ r.raised

\* a node that requires PoW and has a peer has just dropped a GET_PEERS from
\* an address outside its peer table
C18_Witness ==
    /\ node.cfg.pow_k > 0
    /\ node.peers # <<>>
    /\ last.event = "datagram"
    /\ last.handler = "GET_PEERS"
    /\ last.sender_addr \notin PeerSet(node)
    /\ last.out = <<>>

\* C19: when PoW is required, every address in the peer table is one from
\* which a HELLO with a verified token was accepted
C19_PeersAreVerified ==
    node.cfg.pow_k > 0 => PeerSet(node) \subseteq verified

\* the entry of address a exists in s and was last seen at time t
Refreshed(s, a, t) ==
    /\ a \in PeerSet(s)
    /\ s.peers[PeerIndex(s, a)].last_seen = t

\* the step is the arrival of a datagram that a handler took, from an
\* address that is in the peer table
FromPeer ==
    /\ steps' # steps
    /\ now' = now
    /\ last'.event = "datagram"
    /\ last'.handler # "none"
    /\ last'.sender_addr \in PeerSet(node)

NotTouching ==
    \/ last'.handler = "GOSSIP" /\ last'.msg_id \in SeqSet(node.seen)
    \/ last'.handler = "HELLO" /\ node.cfg.pow_k > 0 /\ last'.out = <<>>

MaxSendSteps == 4

\* addresses a sender can declare: a host that answers, a port out of
\* range, a host without a route, and the empty string
SendSenders == {2, MaxAddr, BadPort, NoRoute, 0}

\* a HELLO from every such sender, and GOSSIP from the host that answers
SendEnvelopes ==
    {hello(PeerId, a, None, OtherUuid, NowMs(1)) : a \in SendSenders}
    \cup {Message("GOSSIP", PeerId, 2, GossipPayload, 2, 1, NowMs(1))}

SendFrames == {to_bytes(m) : m \in SendEnvelopes}

SendConfigs == {GossipConfig(MaxAddr, 2, 2, 0, "hybrid", 0)}

InitSend == InitWith(SendConfigs)

NextSend ==
    \/ Start
    \/ Receive(SendFrames, MaxSendSteps)
    \/ PingTick(MaxSendSteps)
    \/ PullTick(MaxSendSteps)
    \/ Input({"d"}, MaxSendSteps)

SpecSend == InitSend /\ [][NextSend]_vars

\* the socket can send to the address
Reachable(addr) == addr \notin {0, BadPort, NoRoute}

\* C17: in every handler or loop iteration, every selected target that can
\* be sent to is sent to, whatever send failed before, and stats_sent grows
\* by the number of datagrams that left
C17_FailedSendHarmless ==
    [][(steps' # steps)
           => /\ \A i \in DOMAIN last'.out :
                     Reachable(last'.out[i].to) => last'.out[i].left
              /\ node'.stats_sent - node.stats_sent
                     = Cardinality({i \in DOMAIN last'.out : last'.out[i].left})]_vars

\* a failing send never leaves the handler or the loop with an exception
SendNeverRaises == ~ last.raised

\* ------------------------------------------------------------------ two nodes, one seed

\* the runs explored are those of at most MaxTwinSteps events after start-up
MaxTwinSteps == 5

\* the identity of the second node
TwinId == <<4>>

\* HELLO from three senders, and two GOSSIP messages from the third
TwinEnvelopes ==
    {hello(PeerId, a, None, OtherUuid, NowMs(1)) : a \in {2, MaxAddr, 0}}
    \cup {Message("GOSSIP", PeerId, 0, GossipPayload, 2, id, NowMs(1)) : id \in {1, 2}}

TwinFrames == {to_bytes(m) : m \in TwinEnvelopes}

TwinConfigs == {GossipConfig(MaxAddr, 1, 2, 0, "push", 0)}

InitTwin == InitWith(TwinConfigs)

\* both nodes are constructed from the same configuration and started
TwinStart ==
    /\ ~ node.running
    /\ twin = TwinIdle
    /\ LET r == run(node, now)
           r2 == run(GossipNode(node.cfg, TwinId, SelfAddr), now)
       IN  /\ node' = Settle(r.s)
           /\ last' = Own("run", r)
           /\ twin' = [pc |-> "up", s |-> Settle(r2.s), out |-> r2.out]
    /\ UNCHANGED <<now, used, forwarded, steps, codec, pw, verified, net>>

\* the step of both nodes: they are up and the run has events left
TwinRunning ==
    /\ node.running
    /\ twin # TwinIdle
    /\ steps < MaxTwinSteps
    /\ steps' = steps + 1
    /\ UNCHANGED <<forwarded, codec, pw, verified, net>>

\* the same datagram arrives at both nodes
TwinReceive ==
    /\ TwinRunning
    /\ \E data \in TwinFrames :
          LET res == _on_datagram(node, data, now, Fresh)
              res2 == _on_datagram(twin.s, data, now, Fresh)
              msg == from_bytes(data, Fresh[1])
          IN  /\ node' = Settle(res.run.s)
              /\ twin' = [twin EXCEPT !.s = Settle(res2.run.s), !.out = res2.run.out]
              /\ last' = Step("datagram", data.form, Get(data.doc, "msg_type", ""),
                              msg.sender_addr,
                              IF res.handler = "GOSSIP" THEN msg.msg_id ELSE IntNone,
                              res.handler, res.run)
              /\ used' = used \cup GossipIds(res.run.out) \cup GossipIds(res2.run.out)
                              \cup (IF res.handler = "GOSSIP" THEN {msg.msg_id} ELSE {})
    /\ UNCHANGED now

\* the ping loop of the first node wakes up
TwinPingFirst ==
    /\ TwinRunning
    /\ LET r == _ping_loop(node, now)
       IN  /\ node' = Settle(r.s)
           /\ last' = Own("ping_tick", r)
    /\ UNCHANGED <<now, used, twin>>

\* the ping loop of the second node wakes up
TwinPingSecond ==
    /\ TwinRunning
    /\ LET r == _ping_loop(twin.s, now)
       IN  /\ twin' = [twin EXCEPT !.s = Settle(r.s), !.out = r.out]
           /\ last' = Own("twin_ping_tick", r)
    /\ UNCHANGED <<now, used, node>>

\* time passes
TwinTick ==
    /\ TwinRunning
    /\ now' = now + 1
    /\ UNCHANGED <<node, twin, last, used>>

NextTwin == TwinStart \/ TwinReceive \/ TwinPingFirst \/ TwinPingSecond \/ TwinTick

SpecTwin == InitTwin /\ [][NextTwin]_vars

\* the addresses a step handed GOSSIP envelopes to, in order
Targets(out) ==
    [i \in DOMAIN out |-> out[i].to]

\* the step is the arrival of a GOSSIP at both nodes
GossipArrives ==
    /\ steps' # steps
    /\ last'.event = "datagram"
    /\ last'.handler = "GOSSIP"

Net(nodes, queue, hellos, held, pinged, pulled, injected) ==
    [pc |-> "up", nodes |-> nodes, queue |-> queue, hellos |-> hellos,
     held |-> held, pinged |-> pinged, pulled |-> pulled, injected |-> injected,
     gossips |-> EmptyDict]

\* the tally of the GOSSIP datagrams handed to _send_to_addr, by msg_id
RECURSIVE Tally(_, _)
Tally(tally, out) ==
    IF out = <<>> THEN tally
    ELSE Tally(IF Head(out).msg.msg_type = "GOSSIP"
               THEN SetKey(tally, Head(out).msg.msg_id,
                           Get(tally, Head(out).msg.msg_id, 0) + 1)
               ELSE tally,
               Tail(out))

\* the datagrams of a step that left the socket for a node of the system
RECURSIVE Sent(_, _)
Sent(out, addrs) ==
    IF out = <<>> THEN <<>>
    ELSE (IF Head(out).left /\ Head(out).to \in addrs
          THEN <<[to |-> Head(out).to, frame |-> to_bytes(Head(out).msg)]>>
          ELSE <<>>) \o Sent(Tail(out), addrs)

\* the pairs <<a, b>> where the peer table of a holds b
Holds(nodes) ==
    {<<a, b>> : a \in DOMAIN nodes, b \in DOMAIN nodes} \cap
    {p \in (DOMAIN nodes) \X (DOMAIN nodes) : p[2] \in PeerSet(nodes[p[1]])}

InitNet(systems) ==
    /\ node = GossipNode(GossipConfig(MaxPeerLimit, 1, 2, 0, "push", 0), SelfId, SelfAddr)
    /\ now = 1
    /\ last = Own("init", Run(node, <<>>, FALSE))
    /\ used = {}
    /\ forwarded = <<>>
    /\ steps = 0
    /\ codec = CodecIdle
    /\ pw = PowIdle
    /\ verified = {}
    /\ twin = TwinIdle
    /\ net \in {Net([a \in DOMAIN sys |-> GossipNode(sys[a], <<a>>, a)],
                    <<>>, {}, {}, {}, {}, IntNone) : sys \in systems}

\* what a step of a node of the system leaves outside net: the ids drawn,
\* and one more event
NetStep(r) ==
    /\ used' = used \cup GossipIds(r.out) \cup StateIds(r.s)
    /\ steps' = steps + 1
    /\ UNCHANGED <<node, now, last, forwarded, codec, pw, verified, twin>>

NetAfter(a, r) ==
    LET nodes == [net.nodes EXCEPT ![a] = Settle(r.s)]
    IN  [net EXCEPT !.nodes = nodes,
                    !.queue = @ \o Sent(r.out, DOMAIN net.nodes),
                    !.held = @ \cup Holds(nodes),
                    !.gossips = Tally(@, r.out)]

\* node a starts: run().  A joiner starts when its seed is up.
NetStart(a) ==
    /\ ~ net.nodes[a].running
    /\ LET seed_addr == net.nodes[a].cfg.bootstrap
       IN  seed_addr # 0 => net.nodes[seed_addr].running
    /\ LET r == run(net.nodes[a], now)
       IN  /\ net' = NetAfter(a, r)
           /\ NetStep(r)

\* the i-th datagram in flight is handled by its destination
NetDeliver(i) ==
    LET to == net.queue[i].to
        data == net.queue[i].frame
        res == _on_datagram(net.nodes[to], data, now, Fresh)
        msg == from_bytes(data, Fresh[1])
        after == NetAfter(to, res.run)
    IN  /\ net.nodes[to].running
        /\ net.nodes[to].transport # "closed"
        /\ net' = [after EXCEPT !.queue = RemoveAt(net.queue, i)
                                            \o Sent(res.run.out, DOMAIN net.nodes),
                                !.hellos = IF res.handler = "HELLO"
                                           THEN @ \cup {<<to, msg.sender_addr>>} ELSE @]
        /\ NetStep(res.run)

\* datagrams to one destination are handled in the order they were sent
NetReceive ==
    \E i \in DOMAIN net.queue :
        /\ \A j \in 1..(i - 1) : net.queue[j].to # net.queue[i].to
        /\ NetDeliver(i)

\* the ping loop of node a wakes up; the datagrams of the loops that woke up
\* before it have been handled by then
NetPing(a) ==
    /\ net.nodes[a].running
    /\ a \notin net.pinged
    /\ net.queue = <<>>
    /\ LET r == _ping_loop(net.nodes[a], now)
       IN  /\ net' = [NetAfter(a, r) EXCEPT !.pinged = @ \cup {a}]
           /\ NetStep(r)

\* the pull loop of node a wakes up; the task exists in hybrid mode only
NetPull(a) ==
    /\ net.nodes[a].running
    /\ net.nodes[a].cfg.mode = "hybrid"
    /\ a \notin net.pulled
    /\ net.queue = <<>>
    /\ LET r == _pull_loop(net.nodes[a], now)
       IN  /\ net' = [NetAfter(a, r) EXCEPT !.pulled = @ \cup {a}]
           /\ NetStep(r)

\* the user of node a types a line, once in a run
NetInput(a) ==
    /\ net.nodes[a].running
    /\ net.injected = IntNone
    /\ LET r == _input_loop(net.nodes[a], "d", now, Fresh)
       IN  /\ net' = [NetAfter(a, r) EXCEPT !.injected = Fresh[1]]
           /\ NetStep(r)

\* every loop of a running node has had its tick in this period
Ticked ==
    \A a \in DOMAIN net.nodes :
        net.nodes[a].running =>
            /\ a \in net.pinged
            /\ net.nodes[a].cfg.mode = "hybrid" => a \in net.pulled

\* a period has passed
NetTick(until) ==
    /\ now < until
    /\ net.queue = <<>>
    /\ Ticked
    /\ now' = now + 1
    /\ steps' = steps + 1
    /\ net' = [net EXCEPT !.pinged = {}, !.pulled = {}]
    /\ UNCHANGED <<node, last, used, forwarded, codec, pw, verified, twin>>

\* some node can start
CanStart ==
    \E a \in DOMAIN net.nodes :
        /\ ~ net.nodes[a].running
        /\ net.nodes[a].cfg.bootstrap # 0 => net.nodes[net.nodes[a].cfg.bootstrap].running

\* some datagram in flight can be handled
CanReceive ==
    \E i \in DOMAIN net.queue :
        /\ net.nodes[net.queue[i].to].running
        /\ net.nodes[net.queue[i].to].transport # "closed"

\* some loop has its tick of this period ahead
CanWake ==
    /\ net.queue = <<>>
    /\ ~ Ticked

\* an event took place
NetProgress == steps' = steps + 1

\* ------------------------------------------------------------------ a seed and a joiner

\* the runs explored last MaxJoinTime periods
MaxJoinTime == 3

SeedAddr == SelfAddr
JoinerAddr == 2

\* a seed requiring difficulty k and a joiner configured with difficulty j
JoinSystems ==
    {[a \in {SeedAddr, JoinerAddr} |->
         IF a = SeedAddr THEN GossipConfig(MaxPeerLimit, 1, 2, k, "push", 0)
         ELSE GossipConfig(MaxPeerLimit, 1, 2, j, "push", SeedAddr)]
       : k \in 0..MaxK, j \in 0..MaxK}

InitJoin == InitNet(JoinSystems)

NextJoin ==
    \/ \E a \in DOMAIN net.nodes : NetStart(a)
    \/ NetReceive
    \/ \E a \in DOMAIN net.nodes : NetPing(a)
    \/ \E a \in DOMAIN net.nodes : NetInput(a)
    \/ NetTick(MaxJoinTime)

SpecJoin == InitJoin /\ [][NextJoin]_vars

Seed == net.nodes[SeedAddr]
Joiner == net.nodes[JoinerAddr]

\* C12: when the seed requires PoW and the joiner is configured without,
\* the seed never answers the joiner and never has the joiner's address in
\* its peer table
C12_NoPowJoinerKeptOut ==
    (Seed.cfg.pow_k > 0 /\ Joiner.cfg.pow_k = 0) =>
        /\ JoinerAddr \notin PeerSet(Seed)
        /\ <<SeedAddr, JoinerAddr>> \notin net.held
        /\ \A i \in DOMAIN net.queue : net.queue[i].to # JoinerAddr
        /\ Seed.stats_sent = 0

\* the seed requires PoW, the joiner has none, and the seed has handled the
\* joiner's HELLO and its GET_PEERS; later both have had ping ticks
C12_Witness ==
    /\ Seed.cfg.pow_k > 0
    /\ Joiner.cfg.pow_k = 0
    /\ <<SeedAddr, JoinerAddr>> \in net.hellos
    /\ net.queue = <<>>
    /\ now > 1

\* the HELLO envelopes in flight
HellosInFlight ==
    {from_bytes(net.queue[i].frame, OtherUuid) : i \in DOMAIN net.queue}
    \cap {m \in {from_bytes(net.queue[i].frame, OtherUuid) : i \in DOMAIN net.queue} :
             m.msg_type = "HELLO"}

\* a PEERS_LIST from node b is in flight to node a
ReplyInFlight(b, a) ==
    \E i \in DOMAIN net.queue :
        /\ net.queue[i].to = a
        /\ from_bytes(net.queue[i].frame, OtherUuid).msg_type = "PEERS_LIST"
        /\ from_bytes(net.queue[i].frame, OtherUuid).sender_addr = b

\* C13: a HELLO of a node configured with difficulty j > 0 carries the token
\* the node computed at start-up for its own identity; a receiver requiring
\* k <= j that has handled it has added the sender and replied with a
\* PEERS_LIST, and the sender adds the receiver when the reply arrives
C13_TokenAdmits ==
    /\ \A m \in HellosInFlight :
           LET sender == net.nodes[m.sender_addr]
           IN  sender.cfg.pow_k > 0 =>
                   /\ m.sender_id = sender.node_id
                   /\ Get(m.payload.items, "pow", None)
                          = compute_pow(sender.node_id, sender.cfg.pow_k)
                   /\ sender.pow_data = Get(m.payload.items, "pow", None)
    /\ \A p \in net.hellos :
           net.nodes[p[2]].cfg.pow_k >= net.nodes[p[1]].cfg.pow_k =>
               /\ p \in net.held
               /\ <<p[2], p[1]>> \in net.held \/ ReplyInFlight(p[1], p[2])

\* seed and joiner both require difficulty MaxK, the HELLO was handled, the
\* reply has arrived, and each holds the other
C13_Witness ==
    /\ Seed.cfg.pow_k = MaxK
    /\ Joiner.cfg.pow_k = MaxK
    /\ <<SeedAddr, JoinerAddr>> \in net.hellos
    /\ net.queue = <<>>
    /\ JoinerAddr \in PeerSet(Seed)
    /\ SeedAddr \in PeerSet(Joiner)

\* ------------------------------------------------------------------ a seed and two joiners

\* the runs explored last MaxBootTime periods
MaxBootTime == 3

Joiners == {2, MaxAddr}

\* the fan-outs explored
BootFanouts == {1, 2}

\* --seed: every start of the model's PRNG stream
Seeds == 0..(RngMod - 1)

WithSeed(cfg, seed) == [cfg EXCEPT !.seed = seed]

\* the three nodes of the bootstrap test, all with the same fanout and seed
BootSystems ==
    {[a \in {SeedAddr} \cup Joiners |->
         WithSeed(GossipConfig(MaxAddr, f, 2, 0, "push",
                               IF a = SeedAddr THEN 0 ELSE SeedAddr), seed)]
       : f \in BootFanouts, seed \in Seeds}

InitBoot == InitNet(BootSystems)

\* the three nodes are started within the first period
BootTick ==
    /\ \A a \in DOMAIN net.nodes : net.nodes[a].running
    /\ NetTick(MaxBootTime)

NextBoot ==
    \/ \E a \in DOMAIN net.nodes : NetStart(a)
    \/ NetReceive
    \/ \E a \in DOMAIN net.nodes : NetPing(a)
    \/ BootTick

SpecBoot == InitBoot /\ [][NextBoot]_vars

\* some event of NextBoot can take place
BootPending ==
    \/ CanStart
    \/ CanReceive
    \/ CanWake
    \/ /\ \A a \in DOMAIN net.nodes : net.nodes[a].running
       /\ now < MaxBootTime
       /\ net.queue = <<>>

\* the event loops run: as long as a node can start, a datagram is in
\* flight, a ping loop has its tick ahead or the period can end, an event
\* takes place
SpecBootFair == SpecBoot /\ WF_steps(BootPending /\ NetProgress)

\* events take place only where BootPending says they can
BootPendingCoversNext == [][BootPending]_vars

\* the seed has handled a HELLO from each joiner, each joiner holds the
\* seed, and each joiner has held the other
BootDone ==
    /\ \A j \in Joiners : <<SeedAddr, j>> \in net.hellos
    /\ \A j \in Joiners : SeedAddr \in PeerSet(net.nodes[j])
    /\ \A j \in Joiners : \A other \in Joiners \ {j} : <<j, other>> \in net.held

N == 10
TestFanout == 3
TestTtl == 8
TestPeerLimit == 20
TestPeerTimeout == 5

\* the message is injected after 1..MaxSettle periods, and the run is
\* observed until MaxWait periods after the last of these
MaxSettle == 3
MaxWait == 2

TenAddrs == 1..N

\* the modes the tests run
TenModes == {"push", "hybrid"}

\* launch_node(port, bootstrap, seed = base + i, mode)
TenSystems ==
    {[a \in TenAddrs |->
         [WithSeed(GossipConfig(TestPeerLimit, TestFanout, TestTtl, 0, mode,
                                IF a = SeedAddr THEN 0 ELSE SeedAddr),
                   (base + a) % RngMod)
            EXCEPT !.peer_timeout = TestPeerTimeout]]
       : mode \in TenModes, base \in Seeds}

InitTen == InitNet(TenSystems)

AllRunning == \A a \in DOMAIN net.nodes : net.nodes[a].running

\* the nodes are launched one after the other, each when the datagrams of the
\* one before have been handled
TenStart(a) ==
    /\ net.queue = <<>>
    /\ \A b \in 1..(a - 1) : net.nodes[b].running
    /\ NetStart(a)

\* the datagrams are handled in the order they were sent
TenReceive ==
    /\ net.queue # <<>>
    /\ NetDeliver(1)

\* the loops wake up in the order the nodes were launched; once the settle
\* time is over they wait for the injection
TenAwake == net.injected # IntNone \/ now <= MaxSettle

TenPing(a) ==
    /\ AllRunning
    /\ TenAwake
    /\ \A b \in 1..(a - 1) : b \in net.pinged
    /\ NetPing(a)

TenPull(a) ==
    /\ AllRunning
    /\ TenAwake
    /\ net.pinged = DOMAIN net.nodes
    /\ \A b \in 1..(a - 1) : b \in net.pulled
    /\ NetPull(a)

\* the message is typed at the seed between two periods, after at least one
TenInput ==
    /\ AllRunning
    /\ now > 1
    /\ net.queue = <<>>
    /\ net.pinged = {}
    /\ net.pulled = {}
    /\ NetInput(SeedAddr)

\* a period passes; the run is observed for at least MaxWait periods after
\* the injection
TenTick ==
    /\ AllRunning
    /\ TenAwake
    /\ NetTick(MaxSettle + MaxWait + 1)

NextTen ==
    \/ \E a \in DOMAIN net.nodes : TenStart(a)
    \/ TenReceive
    \/ \E a \in DOMAIN net.nodes : TenPing(a)
    \/ \E a \in DOMAIN net.nodes : TenPull(a)
    \/ TenInput
    \/ TenTick

SpecTen == InitTen /\ [][NextTen]_vars

\* the nodes that have marked the injected message seen
SeenBy == {a \in DOMAIN net.nodes : net.injected \in SeqSet(net.nodes[a].seen)}

\* the run is over: the message was injected, the last period has come, every
\* loop has had its tick and no datagram is in flight
TenOver ==
    /\ net.pc = "up"
    /\ net.injected # IntNone
    /\ now = MaxSettle + MaxWait + 1
    /\ net.queue = <<>>
    /\ Ticked

MaxRelaySteps == 4

\* three hosts that send to the node
RelaySenders == {2, MaxAddr, MaxAddr + 1}

\* the fan-outs explored
RelayFanouts == {1, 2}

\* payloads of a GOSSIP: the usual one, one whose origin_timestamp_ms is 0,
\* and one without any of the four slots
ZeroStampPayload ==
    Payload([topic |-> "sport", data |-> "e", origin_id |-> PeerId,
             origin_timestamp_ms |-> 0])

\* the GOSSIP envelopes a host can send that the handler is examined on: two
\* ids with one hop or two left from every host, and from the first host one
\* whose msg_id is "", one with ttl 0 and one of each other payload
RelayGossip ==
    {Message("GOSSIP", PeerId, a, GossipPayload, ttl, id, NowMs(1)) :
         a \in RelaySenders, ttl \in {1, 2}, id \in {1, 2}}
    \cup {Message("GOSSIP", PeerId, 2, GossipPayload, 2, 0, NowMs(1)),
          Message("GOSSIP", PeerId, 2, GossipPayload, 0, 2, NowMs(1)),
          Message("GOSSIP", PeerId, 2, ZeroStampPayload, 2, 1, NowMs(1)),
          Message("GOSSIP", PeerId, 2, Payload(EmptyDict), 2, 1, NowMs(1))}

\* what the hosts send in the runs explored: a PING, a GOSSIP with two hops
\* left and another with one hop left, from every host
RelayEnvelopes ==
    {ping(PeerId, a, 1, 1, OtherUuid, NowMs(1)) : a \in RelaySenders}
    \cup {Message("GOSSIP", PeerId, a, GossipPayload, 2, 1, NowMs(1)) : a \in RelaySenders}
    \cup {Message("GOSSIP", PeerId, a, GossipPayload, 1, 2, NowMs(1)) : a \in RelaySenders}

RelayFrames == {to_bytes(m) : m \in RelayEnvelopes}

RelayConfigs == {GossipConfig(MaxAddr, f, 2, 0, "push", 0) : f \in RelayFanouts}

InitRelay == InitWith(RelayConfigs)

NextRelay ==
    \/ Start
    \/ Receive(RelayFrames, MaxRelaySteps)
    \/ Input({"d"}, MaxRelaySteps)
    \/ Tick(MaxRelaySteps)

SpecRelay == InitRelay /\ [][NextRelay]_vars

\* what _on_datagram does with the envelope in the state the node is in
Handled(m) == _on_datagram(node, to_bytes(m), now, Fresh).run

\* the node takes the GOSSIP as new: its id is not in the seen set and its
\* payload is a mapping
NewGossip(m) == m.msg_id \notin SeqSet(node.seen) /\ m.payload.isdict

\* C21: a GOSSIP whose msg_id is in the seen set changes nothing in the node
\* (seen set, store, peer table with the sender's last_seen, pending pings,
\* PRNG) and no datagram is handed to the socket
C21_DuplicateDropped ==
    \A m \in RelayGossip :
        (node.running /\ m.msg_id \in SeqSet(node.seen))
            => /\ Handled(m).s = node
               /\ Handled(m).out = <<>>
               /\ ~ Handled(m).raised

\* a GOSSIP was dropped as a duplicate: the store holds the copy that came
\* first, from another sender
C21_Witness ==
    /\ last.handler = "GOSSIP"
    /\ last.out = <<>>
    /\ last.msg_id \in SeqSet(node.seen)
    /\ last.msg_id \in DOMAIN node.message_store
    /\ node.message_store[last.msg_id].sender_addr # last.sender_addr

TargetSet(out) == {out[i].to : i \in DOMAIN out}

\* candidates of _forward_gossip in the state the handler leaves
Candidates(m) == PeerSet(Handled(m).s) \ {m.sender_addr}

\* C22: the targets of one forwarded GOSSIP are pairwise distinct, are
\* min(fanout, number of candidates) addresses of the peer table as it is
\* when the copies are sent, none is the inbound sender's address and none is
\* the node's own; with fewer candidates than fanout every candidate is a target
C22_ForwardTargets ==
    \A m \in RelayGossip :
        (node.running /\ NewGossip(m) /\ m.ttl > 1)
            => LET out == Handled(m).out
               IN  /\ Cardinality(TargetSet(out)) = Len(out)
                   /\ Len(out) = Min2(node.cfg.fanout, Cardinality(Candidates(m)))
                   /\ TargetSet(out) \subseteq Candidates(m) \ {node.addr}
                   /\ Cardinality(Candidates(m)) < node.cfg.fanout
                          => TargetSet(out) = Candidates(m)

\* a GOSSIP was forwarded to two peers out of a table of three, the sender
\* being the third
C22_Witness ==
    /\ last.handler = "GOSSIP"
    /\ Len(last.out) = 2
    /\ Cardinality(TargetSet(last.out)) = 2
    /\ Len(node.peers) = 3
    /\ last.sender_addr \in PeerSet(node) \ TargetSet(last.out)

\* the fields of a GOSSIP envelope that a forwarded copy is to keep; a slot
\* the payload does not have reads as absent
Carried(m) ==
    [msg_id |-> m.msg_id,
     origin_id |-> Get(m.payload.items, "origin_id", <<>>),
     origin_timestamp_ms |-> Get(m.payload.items, "origin_timestamp_ms", IntNone),
     topic |-> Get(m.payload.items, "topic", "absent"),
     data |-> Get(m.payload.items, "data", "absent")]

\* C23: every copy emitted when a GOSSIP is forwarded carries the msg_id,
\* origin_id, origin_timestamp_ms, topic and data of the inbound envelope,
\* names the forwarding node as its sender, and has the inbound ttl less one
C23_ForwardPreserves ==
    \A m \in RelayGossip :
        (node.running /\ NewGossip(m))
            => \A i \in DOMAIN Handled(m).out :
                   LET fwd == Handled(m).out[i].msg
                   IN  /\ fwd.msg_type = "GOSSIP"
                       /\ Carried(fwd) = Carried(m)
                       /\ fwd.sender_id = node.node_id
                       /\ fwd.sender_addr = node.addr
                       /\ fwd.ttl = m.ttl - 1

\* the same for the envelopes whose msg_id and origin_timestamp_ms are not
\* falsy and whose payload has the four slots
C23_ForwardPreservesTruthy ==
    \A m \in RelayGossip :
        (/\ node.running /\ NewGossip(m)
         /\ Truthy(m.msg_id)
         /\ {"origin_id", "origin_timestamp_ms", "topic", "data"} \subseteq DOMAIN m.payload.items
         /\ Truthy(m.payload.items.origin_timestamp_ms))
            => \A i \in DOMAIN Handled(m).out :
                   LET fwd == Handled(m).out[i].msg
                   IN  /\ fwd.msg_type = "GOSSIP"
                       /\ Carried(fwd) = Carried(m)
                       /\ fwd.sender_id = node.node_id
                       /\ fwd.sender_addr = node.addr
                       /\ fwd.ttl = m.ttl - 1

\* the GOSSIP envelopes a line read from stdin makes the node send
Injected == _input_loop(node, "d", now, Fresh).out

\* C24: a GOSSIP that arrives with ttl <= 1 and is not a duplicate is marked
\* seen and stored and no copy of it is sent; every copy forwarded for an
\* inbound GOSSIP has the inbound ttl less one, which is at least 1; every copy
\* of an injected message has the configured ttl.  Along a chain of forwards
\* the ttl so falls by one per hop from the configured ttl and stops at 1.
C24_HopBudget ==
    /\ \A m \in RelayGossip :
          (node.running /\ m.msg_id \notin SeqSet(node.seen))
              => /\ m.ttl <= 1
                     => /\ Handled(m).out = <<>>
                        /\ m.msg_id \in SeqSet(Handled(m).s.seen)
                        /\ m.msg_id \in DOMAIN Handled(m).s.message_store
                 /\ \A i \in DOMAIN Handled(m).out :
                        /\ Handled(m).out[i].msg.ttl = m.ttl - 1
                        /\ Handled(m).out[i].msg.ttl >= 1
    /\ node.running
           => \A i \in DOMAIN Injected : Injected[i].msg.ttl = node.cfg.ttl

\* a GOSSIP with ttl <= 1 arrived from the peer that joined the table last,
\* was stored, and was not forwarded to the peers that were there before
C24_Witness ==
    /\ last.handler = "GOSSIP"
    /\ last.out = <<>>
    /\ ~ last.raised
    /\ node.seen # <<>>
    /\ node.seen[Len(node.seen)] = last.msg_id
    /\ last.msg_id \in DOMAIN node.message_store
    /\ node.message_store[last.msg_id].ttl <= 1
    /\ Len(node.peers) >= 2
    /\ node.peers[Len(node.peers)].addr = last.sender_addr

\* what the input loop does with the line "d" in the current state
Inject == _input_loop(node, "d", now, Fresh)

\* C25: a non-empty line gets a msg_id that no envelope handled so far had and
\* that the node does not hold; after the step the id is in the seen set and
\* the store, and one GOSSIP with that id, the configured ttl and the line as
\* data went to each of min(fanout, size of the peer table) pairwise distinct
\* peers of the table; with an empty table nothing is sent and the id is seen
\* and stored all the same
C25_Injection ==
    node.running
        => LET id == Fresh[1]
               out == Inject.out
           IN  /\ id \notin used \cup StateIds(node)
               /\ id \in SeqSet(Inject.s.seen)
               /\ id \in DOMAIN Inject.s.message_store
               /\ Inject.s.message_store[id].msg_id = id
               /\ Len(out) = Min2(node.cfg.fanout, Len(node.peers))
               /\ Cardinality(TargetSet(out)) = Len(out)
               /\ TargetSet(out) \subseteq PeerSet(node)
               /\ \A i \in DOMAIN out :
                      /\ out[i].msg.msg_type = "GOSSIP"
                      /\ out[i].msg.msg_id = id
                      /\ out[i].msg.ttl = node.cfg.ttl
                      /\ out[i].msg.payload.items.data = "d"
                      /\ out[i].msg.payload.items.origin_id = node.node_id
                      /\ out[i].msg.sender_addr = node.addr
               /\ node.peers = <<>> => out = <<>>

\* a line was injected with three peers in the table and fanout 2: two copies
\* left, and their id is the newest of the seen set
C25_Witness ==
    /\ last.event = "input"
    /\ Len(last.out) = 2
    /\ Len(node.peers) = 3
    /\ node.seen # <<>>
    /\ \A i \in DOMAIN last.out : last.out[i].msg.msg_id = node.seen[Len(node.seen)]

\* ------------------------------------------------------------------ the ping loop

\* the runs explored are those of at most MaxPingSteps events after start-up
MaxPingSteps == 6

\* two hosts that send to the node
PingSenders == {2, MaxAddr}

\* the fan-outs explored
PingFanouts == {1, 2}

\* a ping_id and a seq that a host puts into its PING
HostPingId == 7
HostSeq == 5

\* what the hosts send in the runs explored: a PING, a PONG for the node's
\* first PING, and a PONG without the ping_id slot
PingEnvelopes ==
    {ping(PeerId, a, HostSeq, HostPingId, OtherUuid, NowMs(1)) : a \in PingSenders}
    \cup {pong(PeerId, a, 1, 1, OtherUuid, NowMs(1)) : a \in PingSenders}
    \cup {Message("PONG", PeerId, 2, Payload(EmptyDict), DefaultTtl, OtherUuid, NowMs(1))}

PingFrames == {to_bytes(m) : m \in PingEnvelopes}

PingConfigs == {GossipConfig(MaxPeerLimit, f, 2, 0, "push", 0) : f \in PingFanouts}

InitPing == InitWith(PingConfigs)

NextPing ==
    \/ Start
    \/ Receive(PingFrames, MaxPingSteps)
    \/ PingTick(MaxPingSteps)
    \/ Tick(MaxPingSteps)

SpecPing == InitPing /\ [][NextPing]_vars

\* the PING and PONG envelopes the handlers are examined on: those the hosts
\* send, a PONG for the node's second PING, a PING that names the node's own
\* address as its sender, and a PING and a PONG whose payload is a number
PingProbes ==
    PingEnvelopes
    \cup {pong(PeerId, 2, 2, 2, OtherUuid, NowMs(1)),
          ping(PeerId, SelfAddr, HostSeq, HostPingId, OtherUuid, NowMs(1)),
          Message("PING", PeerId, 2, NotADict, DefaultTtl, OtherUuid, NowMs(1)),
          Message("PONG", PeerId, 2, NotADict, DefaultTtl, OtherUuid, NowMs(1))}

\* touch(addr, node_id) has acted on the sender of m: the node's own address
\* leaves the table as it was, any other is in the table, seen now
SenderTouched(s, m) ==
    IF m.sender_addr = node.addr THEN s.peers = node.peers
    ELSE Refreshed(s, m.sender_addr, now)

\* the PING m got its one PONG, to its sender, with its ping_id and seq
Ponged(m) ==
    LET out == Handled(m).out
    IN  /\ Len(out) = 1
        /\ out[1].to = m.sender_addr
        /\ out[1].msg.msg_type = "PONG"
        /\ out[1].msg.payload.items = m.payload.items

\* the pending-ping map after the PONG m: without the entry of m's ping_id,
\* and otherwise as before
Settled(m) ==
    LET ping_id == Get(m.payload.items, "ping_id", 0)
    IN  Handled(m).s.pending_pings = RemoveKey(node.pending_pings, ping_id)

\* C26: every PING is answered with one PONG to its sender address that
\* echoes ping_id and seq, and its sender is touched; every PONG removes the
\* pending ping of its ping_id, or leaves the map as it is when there is none,
\* and its sender is touched
C26_PingPongExchange ==
    node.running =>
        \A m \in PingProbes :
            /\ SenderTouched(Handled(m).s, m)
            /\ m.msg_type = "PING" => Ponged(m)
            /\ m.msg_type = "PONG" => Settled(m) /\ Handled(m).out = <<>>

\* the same for the envelopes whose payload is a mapping
C26_WellFormedExchange ==
    node.running =>
        \A m \in {e \in PingProbes : e.payload.isdict} :
            /\ SenderTouched(Handled(m).s, m)
            /\ ~ Handled(m).raised
            /\ m.msg_type = "PING" => Ponged(m)
            /\ m.msg_type = "PONG" => Settled(m) /\ Handled(m).out = <<>>

\* what the ping loop does when it wakes up in the current state
Pinged == _ping_loop(node, now)

\* no pending ping of s was sent more than peer_timeout before the time t
NoStalePing(s, t) ==
    \A pid \in DOMAIN s.pending_pings :
        ~ (t - s.pending_pings[pid] > s.cfg.peer_timeout)

\* C27: when a ping tick is over, no pending ping is left that was sent more
\* than peer_timeout before the tick, whatever the peer table holds
C27_StalePingsDropped ==
    node.running => NoStalePing(Pinged.s, now)

\* the same for the ticks that find a peer in the table
C27_StalePingsDroppedWithPeers ==
    (node.running /\ node.peers # <<>>) => NoStalePing(Pinged.s, now)

\* the peers the sweep at the current time leaves in the table
Alive ==
    {node.peers[i].addr : i \in
        {j \in DOMAIN node.peers :
            ~ (now - node.peers[j].last_seen > node.cfg.peer_timeout)}}

\* C28: the PINGs of a ping tick go to min(fanout, n) pairwise distinct
\* addresses of the table the sweep of that tick leaves, n being its size: to
\* all of them when fanout >= n, to none when n = 0, never to a peer the sweep
\* removed; every PING has a ping_id that was not pending before and is
\* pending, registered with the time of the tick, when the tick ends, and the
\* seq numbers go on from the last one the node used, one by one
C28_PingTargets ==
    node.running
        => LET out == Pinged.out
           IN  /\ Len(out) = Min2(node.cfg.fanout, Cardinality(Alive))
               /\ Cardinality(TargetSet(out)) = Len(out)
               /\ TargetSet(out) \subseteq Alive
               /\ TargetSet(out) \subseteq PeerSet(Pinged.s)
               /\ node.cfg.fanout >= Cardinality(Alive) => TargetSet(out) = Alive
               /\ \A i \in DOMAIN out :
                      LET items == out[i].msg.payload.items
                      IN  /\ out[i].msg.msg_type = "PING"
                          /\ items.ping_id \notin DOMAIN node.pending_pings
                          /\ items.ping_id \in DOMAIN Pinged.s.pending_pings
                          /\ Pinged.s.pending_pings[items.ping_id] = now
                          /\ items.seq = node.ping_seq + i
                          /\ \A j \in 1..(i - 1) :
                                 items.ping_id # out[j].msg.payload.items.ping_id
               /\ Pinged.s.ping_seq = node.ping_seq + Len(out)

\* a tick has pinged both peers of the table, with two ping ids that are
\* pending; by now one of the two has timed out, and the tick that comes
\* removes it and pings the other alone
C28_Witness ==
    /\ last.event = "ping_tick"
    /\ Len(last.out) = 2
    /\ TargetSet(last.out) = PeerSet(node)
    /\ \A i \in DOMAIN last.out :
           last.out[i].msg.payload.items.ping_id \in DOMAIN node.pending_pings
    /\ Cardinality(Alive) = 1
    /\ TargetSet(Pinged.out) = Alive
    /\ PeerSet(Pinged.s) = Alive

\* -- the ping loop on its timer: time is counted in ping intervals, and the
\*    loop body runs each time one has elapsed.  Datagrams arrive until the
\*    time LastArrival, and the timer is followed for as long as an entry made
\*    by then can stay in the table.

\* the last time at which a datagram arrives
LastArrival == 3

\* the last tick followed: peer_timeout (one interval) and one tick later
LastTick == LastArrival + 2

SweepReceive ==
    /\ now <= LastArrival
    /\ Receive(PingFrames, MaxPingSteps)

\* await asyncio.sleep(ping_interval), then one iteration of _ping_loop
SweepWake ==
    /\ node.running
    /\ now < LastTick
    /\ now' = now + 1
    /\ LET r == _ping_loop(node, now + 1)
       IN  /\ node' = Settle(r.s)
           /\ last' = Own("ping_tick", r)
    /\ UNCHANGED <<used, forwarded, steps, codec, pw, verified, twin, net>>

NextSweep == Start \/ SweepReceive \/ SweepWake

SpecSweep == InitPing /\ [][NextSweep]_vars

\* the loop has a tick ahead
CanSweepWake ==
    /\ node.running
    /\ now < LastTick

\* the loop is a task of the running node: its sleep ends and the tick
\* occurs; SweepWake is the one event at which the clock reading changes
SpecSweepFair == SpecSweep /\ WF_now(CanSweepWake /\ now' = now + 1)

\* the peers of s that the sweep at time t keeps
Kept(s, t) ==
    {s.peers[i].addr : i \in
        {j \in DOMAIN s.peers : ~ (t - s.peers[j].last_seen > s.cfg.peer_timeout)}}

\* a tick leaves in the table the peers last seen no earlier than
\* now - peer_timeout, and these only
SweepExact ==
    (last'.event = "ping_tick" /\ now' # now)
        => PeerSet(node') = Kept(node, now')

\* an address enters the table only by being touched: it is the sender of
\* the datagram just handled, seen now
AbsentUntilTouched ==
    \A a \in PeerSet(node') \ PeerSet(node) :
        /\ last'.event = "datagram"
        /\ last'.sender_addr = a
        /\ Refreshed(node', a, now')

\* the entry of a, last seen at t, does not stay as it is for ever
SilentPeerLeaves ==
    \A a \in PingSenders : \A t \in 1..LastArrival :
        Refreshed(node, a, t) ~> ~ Refreshed(node, a, t)

\* C29: the sweep of a ping tick removes the peers whose last_seen is older
\* than now - peer_timeout and no other; so, the ticks going on, the entry of
\* a peer is removed unless the peer is touched again, and an address that is
\* not in the table stays out of it until it is touched
C29_SweepRemovesSilentPeers ==
    /\ [][SweepExact /\ AbsentUntilTouched]_vars
    /\ SilentPeerLeaves

\* a tick found the table holding a peer that had been pinged one interval
\* before, and emptied it
C29_Witness ==
    /\ last.event = "ping_tick"
    /\ node.peers = <<>>
    /\ \E pid \in DOMAIN node.pending_pings : node.pending_pings[pid] = now - 1

\* ------------------------------------------------------------------ eviction

\* the addresses touch is examined on: the hosts that send, and one more
TouchAddrs == PingSenders \cup {MaxAddr + 1}

LastSeen(s, a) == s.peers[PeerIndex(s, a)].last_seen

\* the entries of s with the smallest last_seen
OldestPeers(s) ==
    {a \in PeerSet(s) : \A b \in PeerSet(s) : LastSeen(s, a) <= LastSeen(s, b)}

\* the one of them whose address comes first; addresses are numbered in
\* their lexicographic order
LexOldest(s) == CHOOSE a \in OldestPeers(s) : \A b \in OldestPeers(s) : a <= b

\* the table after the address a has been touched in the current state
TouchedTable(a) == PeerSet(_add_peer(node, PeerId, a, now))

\* the table is non-empty and at capacity
AtCapacity == node.peers # <<>> /\ Len(node.peers) >= node.cfg.peer_limit

\* C30: touching a new address while the table is at capacity evicts exactly
\* one entry, the one with the smallest last_seen and, among several of
\* these, the one whose address is lexicographically smallest, then inserts;
\* touching an address of the table evicts nothing
C30_EvictsLexSmallestOldest ==
    node.running =>
        \A a \in TouchAddrs :
            IF a \in PeerSet(node) THEN TouchedTable(a) = PeerSet(node)
            ELSE AtCapacity
                     => TouchedTable(a) = (PeerSet(node) \ {LexOldest(node)}) \cup {a}

\* the same, whichever of the entries with the smallest last_seen is evicted
C30_EvictsAnOldest ==
    node.running =>
        \A a \in TouchAddrs :
            IF a \in PeerSet(node) THEN TouchedTable(a) = PeerSet(node)
            ELSE AtCapacity
                     => \E b \in OldestPeers(node) :
                            TouchedTable(a) = (PeerSet(node) \ {b}) \cup {a}

\* the same, the entry evicted being the first of them in insertion order
C30_EvictsFirstInsertedOldest ==
    node.running =>
        \A a \in TouchAddrs :
            (a \notin PeerSet(node) /\ AtCapacity)
                => LET first == CHOOSE i \in DOMAIN node.peers :
                                   /\ node.peers[i].addr \in OldestPeers(node)
                                   /\ \A j \in 1..(i - 1) :
                                          node.peers[j].addr \notin OldestPeers(node)
                   IN  TouchedTable(a) = (PeerSet(node) \ {node.peers[first].addr}) \cup {a}

\* ------------------------------------------------------------------ the pull path

\* the runs explored are those of at most MaxPullSteps events after start-up
MaxPullSteps == 4

\* two hosts that send to the node
PullSenders == {2, MaxAddr}

\* a hybrid node that advertises one id to one peer, one that advertises two
\* ids to two peers, and a push node
PullConfigs ==
    {GossipConfig(MaxPeerLimit, 1, 2, 0, "hybrid", 0),
     [GossipConfig(MaxPeerLimit, 2, 2, 0, "hybrid", 0) EXCEPT !.ihave_max_ids = 2],
     [GossipConfig(MaxPeerLimit, 2, 2, 0, "hybrid", 0) EXCEPT !.ihave_max_ids = 0],
     GossipConfig(MaxPeerLimit, 1, 2, 0, "push", 0)}

\* what the hosts send in the runs explored: GOSSIP of the ids 1 and 2, a
\* GOSSIP whose msg_id is "" and whose origin_timestamp_ms is 0, a PING, and
\* an IHAVE and an IWANT that name the ids 1 and 2
PullEnvelopes ==
    {Message("GOSSIP", PeerId, 2, GossipPayload, 2, id, NowMs(1)) : id \in {1, 2}}
    \cup {Message("GOSSIP", PeerId, 2, ZeroStampPayload, 2, 0, NowMs(1)),
          ping(PeerId, MaxAddr, HostSeq, HostPingId, OtherUuid, NowMs(1)),
          ihave(PeerId, 2, <<1, 2>>, 2, OtherUuid, NowMs(1)),
          iwant(PeerId, 2, <<1, 2>>, OtherUuid, NowMs(1))}

PullFrames == {to_bytes(m) : m \in PullEnvelopes}

InitPull == InitWith(PullConfigs)

NextPull ==
    \/ Start
    \/ Receive(PullFrames, MaxPullSteps)
    \/ PullTick(MaxPullSteps)
    \/ Input({"d"}, MaxPullSteps)
    \/ Tick(MaxPullSteps)

SpecPull == InitPull /\ [][NextPull]_vars

\* the id lists an IHAVE or an IWANT is examined with: none, one id, two in
\* either order, an id twice, an id no node has, and the id ""
PullIdLists == {<<>>, <<1>>, <<1, 2>>, <<2, 1>>, <<1, 1>>, <<MaxMsgId + 1, 2>>, <<0, 1>>}

\* the IHAVE envelopes the handler is examined on: every id list from either
\* host, one without the ids slot, and one whose payload is a number
IhaveProbes ==
    {Message("IHAVE", PeerId, a, Payload([ids |-> ids, max_ids |-> 2]),
             DefaultTtl, OtherUuid, NowMs(1)) : a \in PullSenders, ids \in PullIdLists}
    \cup {Message("IHAVE", PeerId, 2, Payload(EmptyDict), DefaultTtl, OtherUuid, NowMs(1)),
          Message("IHAVE", PeerId, 2, NotADict, DefaultTtl, OtherUuid, NowMs(1))}

\* the ids m names, in the order it names them
Named(m) == Get(m.payload.items, "ids", <<>>)

\* those of them the node has not seen
Unseen(m) == SelectSeq(Named(m), LAMBDA id : id \notin SeqSet(node.seen))

\* the IHAVE m was handled as the handler's description says
IhaveAnswered(m) ==
    /\ SenderTouched(Handled(m).s, m)
    /\ Handled(m).s.seen = node.seen
    /\ Handled(m).s.message_store = node.message_store
    /\ IF Unseen(m) = <<>> THEN Handled(m).out = <<>>
       ELSE /\ Len(Handled(m).out) = 1
            /\ Handled(m).out[1].to = m.sender_addr
            /\ Handled(m).out[1].msg.msg_type = "IWANT"
            /\ Handled(m).out[1].msg.payload.items.ids = Unseen(m)

\* C31: an IHAVE makes the node touch the sender and send at most one IWANT,
\* to the IHAVE's sender: one is sent iff an advertised id is not in the seen
\* set, and it lists the advertised ids that are not in the seen set, in the
\* order advertised; the seen set and the store stay as they are
C31_IhaveAnswered ==
    node.running => \A m \in IhaveProbes : IhaveAnswered(m)

\* the same for the envelopes whose payload is a mapping
C31_WellFormedIhaveAnswered ==
    node.running =>
        \A m \in {e \in IhaveProbes : e.payload.isdict} :
            IhaveAnswered(m) /\ ~ Handled(m).raised

\* the IWANT envelopes the handler is examined on
IwantProbes ==
    {Message("IWANT", PeerId, a, Payload([ids |-> ids]),
             DefaultTtl, OtherUuid, NowMs(1)) : a \in PullSenders, ids \in PullIdLists}
    \cup {Message("IWANT", PeerId, 2, Payload(EmptyDict), DefaultTtl, OtherUuid, NowMs(1)),
          Message("IWANT", PeerId, 2, NotADict, DefaultTtl, OtherUuid, NowMs(1))}

\* the ids m asks for that the node has in its store, in the order asked
Served(m) == SelectSeq(Named(m), LAMBDA id : id \in DOMAIN node.message_store)

\* a requester: a node with the peers of this one that has seen nothing
Requester == [node EXCEPT !.seen = <<>>, !.message_store = EmptyDict]

\* the requester marks the pulled GOSSIP g seen, stores it and sends nothing
PulledNotForwarded(g) ==
    LET r == _handle_gossip(Requester, g, now, Fresh)
    IN  /\ r.out = <<>>
        /\ g.msg_id \in SeqSet(r.s.seen)
        /\ g.msg_id \in DOMAIN r.s.message_store

\* the IWANT m was handled as the handler's description says
IwantServed(m) ==
    LET out == Handled(m).out
    IN  /\ SenderTouched(Handled(m).s, m)
        /\ Len(out) = Len(Served(m))
        /\ \A i \in DOMAIN out :
               /\ i <= Len(Served(m))
               /\ out[i].to = m.sender_addr
               /\ out[i].msg.msg_type = "GOSSIP"
               /\ out[i].msg.ttl = 1
               /\ Carried(out[i].msg) = Carried(node.message_store[Served(m)[i]])
               /\ out[i].msg.msg_id = Served(m)[i]
               /\ PulledNotForwarded(out[i].msg)

\* C32: an IWANT makes the node touch the sender and send to it, for each
\* requested id that is in the store and for no other, one GOSSIP with ttl 1
\* that carries the stored msg_id, topic, data, origin_id and
\* origin_timestamp_ms; the requester marks it seen, stores it and does not
\* forward it
C32_IwantServed ==
    node.running => \A m \in IwantProbes : IwantServed(m)

\* the stored envelope of id has a msg_id and an origin_timestamp_ms that
\* are not falsy
Keepable(id) ==
    /\ Truthy(node.message_store[id].msg_id)
    /\ Truthy(Get(node.message_store[id].payload.items, "origin_timestamp_ms", IntNone))

\* the same for the requests whose payload is a mapping and whose served
\* envelopes have a msg_id and an origin_timestamp_ms that are not falsy
C32_WellFormedIwantServed ==
    node.running =>
        \A m \in {e \in IwantProbes : e.payload.isdict} :
            (\A i \in DOMAIN Served(m) : Keepable(Served(m)[i]))
                => IwantServed(m) /\ ~ Handled(m).raised

\* the positions of `out` that carry an IHAVE
IhavePositions(out) == {i \in DOMAIN out : out[i].msg.msg_type = "IHAVE"}

\* the most recently inserted min(k, |seen|) ids of the seen set of s, in
\* insertion order
Recent(s, k) ==
    SubSeq(s.seen, Len(s.seen) - Min2(k, Len(s.seen)) + 1, Len(s.seen))

\* `out` is one IHAVE naming the recent ids of s to each of
\* min(fanout, |peers|) distinct peers of s
AnnouncesRecent(s, out) ==
    /\ Len(out) = Min2(s.cfg.fanout, Len(s.peers))
    /\ Cardinality(TargetSet(out)) = Len(out)
    /\ TargetSet(out) \subseteq SeqSet(PeerAddrs(s))
    /\ s.cfg.fanout >= Len(s.peers) => TargetSet(out) = SeqSet(PeerAddrs(s))
    /\ \A i \in DOMAIN out :
           /\ out[i].msg.msg_type = "IHAVE"
           /\ Named(out[i].msg) = Recent(s, s.cfg.ihave_max_ids)

\* a step of a handler or of a loop (the clock stands still) emits IHAVE
\* only as a pull tick of a hybrid node with peers and seen ids, and such a
\* pull tick announces the recent ids
PullEmission ==
    now' = now =>
        /\ IhavePositions(last'.out) # {} =>
               /\ last'.event = "pull_tick"
               /\ node.cfg.mode = "hybrid"
               /\ node.peers # <<>> /\ node.seen # <<>>
        /\ last'.event = "pull_tick" =>
               IF node.peers # <<>> /\ node.seen # <<>>
               THEN AnnouncesRecent(node, last'.out)
               ELSE last'.out = <<>>
        /\ node.cfg.mode = "push" => last'.event # "pull_tick"

\* C33: IHAVE is emitted only by a hybrid node and only at a pull tick where
\* the peer table and the seen set are both non-empty; such a tick sends one
\* IHAVE to each of min(fanout, |peers|) distinct peers, naming the most
\* recently inserted min(ihave_max_ids, |seen|) ids of the seen set in
\* insertion order; a push-mode node never emits IHAVE
C33_PullEmission == [][PullEmission]_vars

\* a pull tick of a node with two peers, fanout 1 and two seen ids of which
\* it may name one has sent one IHAVE naming the newer id
C33_Witness ==
    /\ last.event = "pull_tick"
    /\ node.cfg.fanout = 1 /\ node.cfg.ihave_max_ids = 1
    /\ Len(node.peers) = 2 /\ Len(node.seen) = 2
    /\ Len(last.out) = 1
    /\ Named(last.out[1].msg) = <<node.seen[2]>>

\* ------------------------------------------------------------------ the node's lifetime

\* the runs explored are those of at most MaxLifeSteps events after start-up
MaxLifeSteps == 5

\* the address the node is told to join through: the first host after its own
BootstrapAddr == SelfAddr + 1

\* one envelope of every kind from the seed, and a PING from two other hosts
LifeEnvelopes ==
    {hello(PeerId, BootstrapAddr, compute_pow(PeerId, 1), OtherUuid, NowMs(1)),
     get_peers(PeerId, BootstrapAddr, DefaultMaxPeers, OtherUuid, NowMs(1)),
     peers_list(PeerId, BootstrapAddr, <<[node_id |-> PeerId, addr |-> MaxAddr]>>,
                OtherUuid, NowMs(1)),
     Message("GOSSIP", PeerId, BootstrapAddr, GossipPayload, 2, 1, NowMs(1)),
     ping(PeerId, BootstrapAddr, HostSeq, HostPingId, OtherUuid, NowMs(1)),
     pong(PeerId, BootstrapAddr, 1, 1, OtherUuid, NowMs(1)),
     ihave(PeerId, BootstrapAddr, <<1, 2>>, 2, OtherUuid, NowMs(1)),
     iwant(PeerId, BootstrapAddr, <<1>>, OtherUuid, NowMs(1))}
    \cup {ping(PeerId, a, HostSeq, HostPingId, OtherUuid, NowMs(1)) :
              a \in {MaxAddr, MaxAddr + 1}}

LifeFrames == {to_bytes(m) : m \in LifeEnvelopes}

\* a node that joins through the seed with a PoW token, one that joins
\* without, and one that is given no bootstrap address
LifeConfigs ==
    {GossipConfig(MaxPeerLimit, 1, 2, 1, "hybrid", BootstrapAddr),
     GossipConfig(MaxPeerLimit, 2, 2, 0, "push", BootstrapAddr),
     GossipConfig(MaxPeerLimit, 2, 2, 0, "hybrid", 0)}

InitLife == InitWith(LifeConfigs)

NextLife ==
    \/ Start
    \/ Receive(LifeFrames, MaxLifeSteps)
    \/ PingTick(MaxLifeSteps)
    \/ PullTick(MaxLifeSteps)
    \/ Input({"d"}, MaxLifeSteps)
    \/ Tick(MaxLifeSteps)

SpecLife == InitLife /\ [][NextLife]_vars

\* the positions of `out` that carry a HELLO or a GET_PEERS
JoinPositions(out) ==
    {i \in DOMAIN out : out[i].msg.msg_type \in {"HELLO", "GET_PEERS"}}

\* `out` is one HELLO of s, with the PoW token when s computes one, and then
\* one GET_PEERS, both to the bootstrap address of s
JoinsThroughSeed(s, out) ==
    /\ Len(out) = 2
    /\ \A i \in DOMAIN out : out[i].to = s.cfg.bootstrap
    /\ out[1].msg.msg_type = "HELLO"
    /\ out[2].msg.msg_type = "GET_PEERS"
    /\ Get(out[1].msg.payload.items, "pow", None)
           = IF s.cfg.pow_k > 0 THEN compute_pow(s.node_id, s.cfg.pow_k) ELSE None

\* a step of the node emits HELLO or GET_PEERS only as its start; the start
\* opens the endpoint, finds the PoW token and then joins through the seed
\* if there is one; the loops and the endpoint's handler run only started
BootstrapOnce ==
    now' = now =>
        /\ JoinPositions(last'.out) # {} => last'.event = "run"
        /\ last'.event = "run" =>
               /\ ~ node.running /\ node'.running
               /\ node.transport = "none" /\ node'.transport = "open"
               /\ IF node.cfg.bootstrap # 0
                  THEN JoinsThroughSeed(node', last'.out)
                  ELSE last'.out = <<>>
        /\ last'.event # "run" => node.running

\* C34: a node with a bootstrap address sends to it exactly one HELLO followed
\* by exactly one GET_PEERS, after the endpoint is open and the PoW token is
\* computed and before any loop runs; it emits no other HELLO or GET_PEERS in
\* its lifetime, and a node without a bootstrap address emits none
C34_BootstrapOnce == [][BootstrapOnce]_vars

\* a node that computes a PoW token has started and sent its HELLO, with the
\* token, and its GET_PEERS to the seed
C34_Witness ==
    /\ last.event = "run"
    /\ node.cfg.pow_k > 0
    /\ JoinsThroughSeed(node, last.out)
    /\ last.out[1].ok /\ last.out[2].ok

\* the kinds a node sends of its own accord, and the kinds it answers with
Unsolicited == {"GOSSIP", "PING", "IHAVE"}
Replies == {"PONG", "PEERS_LIST", "IWANT", "GOSSIP"}

\* the datagram o goes to an address the step leaves in the peer table, or
\* it is a reply of the handler to the address its datagram declares
SentToPeerOrSender(o) ==
    \/ o.to \in PeerSet(node')
    \/ /\ last'.event = "datagram"
       /\ o.to = last'.sender_addr
       /\ o.msg.msg_type \in Replies

\* a step that is not the start sends what it sends of its own accord (the
\* ticks' PING and IHAVE, the injected and the forwarded GOSSIP) to peers
\* the table holds, a forwarded GOSSIP not to its sender, and a reply to the
\* declared sender; the start finds the table empty
OnlyPeersOrSender ==
    now' = now =>
        /\ last'.event = "run" => node.peers = <<>>
        /\ last'.event # "run" =>
               \A i \in DOMAIN last'.out :
                   LET o == last'.out[i]
                   IN  /\ o.msg.msg_type \in Unsolicited \cup Replies
                       /\ SentToPeerOrSender(o)
                       /\ (last'.event # "datagram" \/ last'.handler = "GOSSIP")
                            => /\ o.msg.msg_type \in Unsolicited
                               /\ o.to \in PeerSet(node')
                       /\ (last'.event = "datagram" /\ last'.handler # "GOSSIP")
                            => o.to = last'.sender_addr

\* C35: a node sends unsolicited datagrams (forwarded or injected GOSSIP,
\* PING, IHAVE) only to addresses in its peer table at the moment of sending;
\* to a peer removed by timeout or eviction it sends nothing but direct
\* replies to datagrams declaring that address as sender, until the address
\* re-enters the table
C35_OnlyPeersOrSender == [][OnlyPeersOrSender]_vars

\* the seed, whose HELLO was accepted, fell silent and left the table by
\* timeout, and a ping tick has pinged the peer that is left
C35_Witness ==
    /\ last.event = "ping_tick"
    /\ BootstrapAddr \in verified
    /\ BootstrapAddr \notin PeerSet(node)
    /\ Len(node.peers) = 1
    /\ Len(last.out) = 1
    /\ last.out[1].to = node.peers[1].addr

\* the node answers a request of the peer at `a` for id with one GOSSIP to it
Servable(id, a) ==
    LET r == _handle_iwant(node, iwant(PeerId, a, <<id>>, OtherUuid, NowMs(now)),
                           now, Fresh)
    IN  /\ Len(r.out) = 1
        /\ r.out[1].to = a
        /\ r.out[1].msg.msg_type = "GOSSIP"
        /\ Carried(r.out[1].msg).data = Carried(node.message_store[id]).data

\* every id the pull loop would advertise now is in the store and can be
\* served to the peer it is advertised to
AdvertisedServable ==
    LET out == _pull_loop(node, now).out
    IN  \A i \in DOMAIN out :
            \A id \in SeqSet(Named(out[i].msg)) :
                id \in DOMAIN node.message_store /\ Servable(id, out[i].to)

\* C36: in every reachable state the key set of the message store equals the
\* seen set, each id marked seen having its envelope stored, so that every id
\* a node advertises in an IHAVE can be served from its store at the moment
\* the IHAVE is sent
C36_StoreMatchesSeen ==
    /\ DOMAIN node.message_store = SeqSet(node.seen)
    /\ \A id \in SeqSet(node.seen) : node.message_store[id].msg_id = id
    /\ AdvertisedServable

\* ids have been evicted from a full seen set, and a pull tick has advertised
\* ids the set holds
C36_Witness ==
    /\ last.event = "pull_tick"
    /\ last.out # <<>>
    /\ Len(node.seen) = SEEN_SET_MAX
    /\ Cardinality(used) > SEEN_SET_MAX
    /\ Named(last.out[1].msg) # <<>>

\* the step is the handling of a datagram of the kind `handler`
Handles(handler) == last'.event = "datagram" /\ last'.handler = handler

\* a step changes the seen set or the store only as the handling of a GOSSIP
\* whose id is not in the seen set or as an input line, and the pending-ping
\* map only as the handling of a PONG or as a ping tick; the passing of
\* time changes nothing of the node
FrameEffects ==
    /\ now' # now => node' = node
    /\ now' = now =>
        /\ (node'.seen # node.seen \/ node'.message_store # node.message_store)
               => \/ last'.event = "input"
                  \/ Handles("GOSSIP") /\ last'.msg_id \notin SeqSet(node.seen)
        /\ node'.pending_pings # node.pending_pings
               => last'.event = "ping_tick" \/ Handles("PONG")

\* C37: the seen set and the message store are changed only by the reception
\* of a not-yet-seen GOSSIP and by application-input injection; the HELLO,
\* GET_PEERS, PEERS_LIST, PING, PONG, IHAVE and IWANT handlers and the ping
\* and pull ticks leave both unchanged, and only PONG handling and ping ticks
\* change the pending-ping map
C37_FrameEffects == [][FrameEffects]_vars

\* before any time has passed a node that holds a message has sent its
\* first PING and the PONG for it has emptied the pending-ping map
C37_Witness ==
    /\ last.event = "datagram" /\ last.handler = "PONG"
    /\ now = 1
    /\ node.ping_seq = 1
    /\ DOMAIN node.pending_pings = {}
    /\ node.seen # <<>>

\* ------------------------------------------------------------------ dissemination

\* the runs explored last MaxSpreadTime periods
MaxSpreadTime == 2

\* as many messages are injected as a seen set holds, so none overflows
MaxInjections == SEEN_SET_MAX

\* the seed and the two addresses after it
SpreadAddrs == SeedAddr..(SeedAddr + 2)
SpreadModes == {"push", "hybrid"}
SpreadSeeds == {0, RngMod - 1}

\* a seed and two joiners, all with the same mode, fanout and seed
SpreadSystems ==
    {[a \in SpreadAddrs |->
         WithSeed(GossipConfig(MaxAddr, f, TestTtl, 0, mode,
                               IF a = SeedAddr THEN 0 ELSE SeedAddr), seed)]
       : f \in BootFanouts, mode \in SpreadModes, seed \in SpreadSeeds}

InitSpread == InitNet(SpreadSystems)

\* the user of node a types a line, between two periods or while the nodes
\* are being launched
SpreadInput(a) ==
    /\ net.nodes[a].running
    /\ Cardinality(used) < MaxInjections
    /\ net.queue = <<>>
    /\ net.pinged = {}
    /\ net.pulled = {}
    /\ LET r == _input_loop(net.nodes[a], "d", now, Fresh)
       IN  /\ net' = [NetAfter(a, r) EXCEPT !.injected = Fresh[1]]
           /\ NetStep(r)

SpreadTick ==
    /\ AllRunning
    /\ NetTick(MaxSpreadTime)

\* the nodes are launched and their loops wake up in the order of the
\* ten-node runs (MaxSpreadTime is within the settle time of those); a
\* datagram in flight is handled at any time, in order at each destination
NextSpread ==
    \/ \E a \in DOMAIN net.nodes : TenStart(a)
    \/ NetReceive
    \/ \E a \in DOMAIN net.nodes : TenPing(a)
    \/ \E a \in DOMAIN net.nodes : TenPull(a)
    \/ \E a \in DOMAIN net.nodes : SpreadInput(a)
    \/ SpreadTick

SpecSpread == InitSpread /\ [][NextSpread]_vars

\* some event of NextSpread other than an input line can take place
SpreadPending ==
    \/ CanStart
    \/ CanReceive
    \/ CanWake
    \/ /\ AllRunning
       /\ now < MaxSpreadTime
       /\ net.queue = <<>>

\* no datagram is lost, the nodes are started and the loops keep waking up
SpecSpreadFair == SpecSpread /\ WF_steps(SpreadPending /\ NetProgress)

\* every node of the system runs in push mode
PushMode == \A a \in DOMAIN net.nodes : net.nodes[a].cfg.mode = "push"

\* the fanout the nodes of the system share
SpreadFanout == net.nodes[SeedAddr].cfg.fanout

\* at most N * fanout GOSSIP datagrams have been sent for any one msg_id
GossipBounded ==
    \A id \in DOMAIN net.gossips :
        net.gossips[id] <= Cardinality(DOMAIN net.nodes) * SpreadFanout

\* a GOSSIP datagram is in flight
GossipInFlight ==
    \E i \in DOMAIN net.queue :
        Get(net.queue[i].frame.doc, "msg_type", "") = "GOSSIP"

\* C38: in a network of N push-mode nodes, after finitely many injections
\* and with no seen set overflowing, eventually no GOSSIP datagram is in
\* flight any more, and at most N * fanout GOSSIP datagrams are ever sent
\* for one msg_id
C38_PushQuiesces ==
    PushMode => [](GossipBounded) /\ <>[](~ GossipInFlight)

\* in a push-mode system with fanout 2 every message to be injected has
\* been injected and has reached every node, more datagrams than one per
\* node were sent for one of them, and none is in flight
C38_Witness ==
    /\ PushMode
    /\ SpreadFanout = 2
    /\ Cardinality(used) = MaxInjections
    /\ \A id \in used : \A a \in DOMAIN net.nodes : id \in SeqSet(net.nodes[a].seen)
    /\ \E id \in DOMAIN net.gossips : net.gossips[id] > Cardinality(DOMAIN net.nodes)
    /\ ~ GossipInFlight

\* every node of the system runs in hybrid mode
HybridMode == \A a \in DOMAIN net.nodes : net.nodes[a].cfg.mode = "hybrid"

\* the ids a run injects
SpreadIds == 1..MaxInjections

\* node b has marked m seen
SeenAt(b, m) == m \in SeqSet(net.nodes[b].seen)

\* a holds m among its ihave_max_ids most recent ids, b is in a's peer table
\* and has not seen m, and a's fanout covers its table
Lagging(a, b, m) ==
    /\ net.nodes[a].running
    /\ m \in SeqSet(Recent(net.nodes[a], net.nodes[a].cfg.ihave_max_ids))
    /\ b \in PeerSet(net.nodes[a])
    /\ ~ SeenAt(b, m)
    /\ net.nodes[a].cfg.fanout >= Len(net.nodes[a].peers)

\* a pull tick of a would send b an IHAVE that names m
WouldAdvertise(a, b, m) ==
    LET out == _pull_loop(net.nodes[a], now).out
    IN  \E i \in DOMAIN out :
            /\ out[i].to = b
            /\ out[i].msg.msg_type = "IHAVE"
            /\ m \in SeqSet(Named(out[i].msg))

\* whenever b lags behind a on m, a's pull tick advertises m to b
PullAdvertises ==
    \A a \in DOMAIN net.nodes : \A b \in DOMAIN net.nodes : \A m \in SpreadIds :
        Lagging(a, b, m) => WouldAdvertise(a, b, m)

\* an IHAVE of a that names m is in flight to b, which has not seen m
Advertised(a, b, m) ==
    /\ ~ SeenAt(b, m)
    /\ \E i \in DOMAIN net.queue :
           LET msg == from_bytes(net.queue[i].frame, OtherUuid)
           IN  /\ net.queue[i].to = b
               /\ msg # None
               /\ msg.msg_type = "IHAVE"
               /\ msg.sender_addr = a
               /\ m \in SeqSet(Named(msg))

\* C39: in hybrid mode, if A holds m among its ihave_max_ids most recent
\* seen ids, B is in A's peer table and has not seen m, no datagram between
\* them is lost, pull ticks keep occurring and B is sampled (as it is when
\* fanout >= |A's peers|), then B eventually marks m seen through the
\* IHAVE, IWANT, GOSSIP(ttl 1) exchange, also when m was injected at A with
\* an empty peer table and was never pushed
C39_PullDelivers ==
    HybridMode =>
        /\ [](PullAdvertises)
        /\ \A a \in SpreadAddrs : \A b \in SpreadAddrs : \A m \in SpreadIds :
               Advertised(a, b, m) ~> SeenAt(b, m)

\* a message injected at the seed was never pushed: the one GOSSIP datagram
\* ever sent for it is the answer to a joiner's IWANT, with one hop left, and
\* the joiner has stored it
C39_Witness ==
    /\ HybridMode
    /\ \E m \in SpreadIds : \E b \in SpreadAddrs \ {SeedAddr} :
           /\ SeenAt(SeedAddr, m)
           /\ net.nodes[SeedAddr].message_store[m].sender_addr = SeedAddr
           /\ Get(net.gossips, m, 0) = 1
           /\ SeenAt(b, m)
           /\ net.nodes[b].message_store[m].ttl = 1
           /\ net.nodes[b].message_store[m].sender_addr = SeedAddr


====
